---------------------------- MODULE Spec2Model ----------------------------
(***************************************************************************)
(* A model of the kauka-dev front-end bundle (src/js/home-bundle.js,       *)
(* src/js/utils/debug.js, src/js/agenda-bundle.js).                        *)
(*                                                                         *)
(* The page is single threaded: every callback (click, resize, timer,      *)
(* image load, promise reaction) runs to completion, so each callback is   *)
(* one action.  The components share no state, so each one is checked      *)
(* under its own specification over a common set of variables:             *)
(*   SpecSlide   the artist gallery slideshow                              *)
(*   SpecScroll  the home page horizontal scroll controller                *)
(*   SpecFetch   the two remote content fetchers                           *)
(*   SpecPos     the background positioner                                 *)
(* Timers count down in steps of TickMs; a timer may fire once its delay   *)
(* has elapsed, and may fire late.                                         *)
(***************************************************************************)
EXTENDS Integers, Sequences, FiniteSets, TLC

(***************************************************************************)
(* Bounds of the model.                                                    *)
(***************************************************************************)
\* longest artist.imagenes list handed to renderArtistGallery
MaxImagenes == 7
\* click events delivered to the arrows of one gallery instance
MaxClicks == 7
\* calls of renderArtistGallery on the same container
MaxRenders == 2
\* resize events delivered to the window
MaxResizes == 4
\* calls of positionSectionBackground (the first one and those on resize)
MaxInvocations == 3
\* load and error events the visible image fires
MaxImageEvents == 2

\* calls of the methods of Debug
MaxDebugCalls == 3

\* datesSet callbacks after the one of the first render
MaxNavs == 2

\* calls of initHomePage
MaxHomeInits == 2

\* calls of getRandomImage
MaxRandomCalls == 2

\* longest imageList handed to getRandomImage
MaxImageList == 2

\* null (no handle); handles are numbered from 1
Null == 0

\* a track that carries no translation
NoTransform == <<>>

VARIABLES
  \* ---- slideshow (renderArtistGallery / initializeSlideshow) ----
  gsapPresent,     \* window.gsap is defined
  galleryEl,       \* document.getElementById(containerId) finds an element
  gallery,         \* "none" before the first render, "rendered" after
  slides,          \* the slides of the track, as indices into artist.imagenes
  arrowsHidden,    \* the arrows carry style display:none
  handlers,        \* the arrows that carry a click listener
  totalSlides,     \* closure variable of initializeSlideshow
  currentSlide,    \* closure variable of initializeSlideshow
  gsapX,           \* x of the last gsap.to(track, ...) on the current track
  styleTransform,  \* track.style.transform of the current track
  location,        \* window.location: "home" or "artist"
  renders,         \* calls of renderArtistGallery so far
  clicks,          \* arrow clicks delivered to the current gallery instance
  lastOp,          \* history: last handler that ran on the current instance
  prevIndex,       \* history: currentSlide before that handler ran (for the
                   \* initialisation: the index the gallery instance it
                   \* replaced had reached)
  opBefore,        \* history: the handler that ran before the last one on
                   \* the current instance ("none": there was none)
  indexBefore,     \* history: currentSlide before opBefore ran
  nextRun,         \* history: consecutive nextSlide calls since index 0 at
                   \* initialisation; -1 once anything else ran
  appliedVia,      \* history: how the last goToSlide applied the translation
  gsapAtOp,        \* history: window.gsap when the last handler ran
  artistLen,       \* history: artist.imagenes.length at the last render
  maxImagesArg,    \* history: the maxImages argument of the last render:
                   \* <<>> when omitted, <<n>> when given
  \* ---- timers (setTimeout / clearTimeout) ----
  timers,          \* pending timers: [id, kind, inv, remaining]
  nextTimerId,     \* the id the next setTimeout returns
  \* ---- horizontal scroll controller (initHomeHorizontalScroll) ----
  innerWidth,      \* window.innerWidth
  scrollTriggerDefined, \* typeof ScrollTrigger !== "undefined"
  containerEl,     \* document.querySelector("#home-componentes") finds one
  scrollableEl,    \* document.querySelector("#componentes-container") finds one
  scrollInit,      \* "none" until initHomeHorizontalScroll has run, then "done"
  horizontalScroll,     \* closure variable: Null or the handle's id
  homeHorizontalScroll, \* window.homeHorizontalScroll: Null or a handle's id
  triggers,        \* ids of the ScrollTriggers created and not killed
  tweens,          \* ids of the tweens created
  nextHandle,      \* id of the next handle created
  minHeightSet,    \* the container's style.minHeight was assigned
  resizeTimeout,   \* closure variable: 0 (undefined) or a timer id
  resizes,         \* resize events so far
  killCalls,       \* history: calls of kill()
  killedNull,      \* history: kill() was called on a null handle
  createAttempts,  \* history: calls of initHorizontalScroll
  evals,           \* history: runs of handleHorizontalScroll
  prevEvalWidth,   \* history: innerWidth at the run before the last (-1: none)
  lastEvalWidth,   \* history: innerWidth at the last run (-1: none)
  hBeforeEval,     \* history: horizontalScroll before the last run
  createdByEval,   \* history: the last run created a handle
  killedByEval,    \* history: the last run killed a handle
  sinceResize,     \* history: ms since the last resize event, capped
  burstLen,        \* history: resize events of the current burst
  burstCrossings,  \* history: crossings of the 768 threshold in the burst
  burstEvals,      \* history: runs of handleHorizontalScroll for the burst
  burstTransitions,\* history: handles created or killed for the burst
  evalDelay,       \* history: sinceResize when the last timer-driven run began
  \* ---- remote content fetchers (fetchProgramaCuratorial / fetchArtists) ----
  kaukaDebug,      \* window.KAUKA_DEBUG
  req,             \* per fetcher: the state of its promise chain
  \* ---- background positioner (positionSectionBackground) ----
  bundle,          \* the file whose positioner runs: "home" or "debug"
  homeImgEl,       \* document.getElementById("home-img") finds an element
  sectionBgEl,     \* document.getElementById("section-bg-img") finds one
  visibleImg,      \* #home-img holds an img that is not .hidden
  imgSvg,          \* visibleImg.src includes ".svg"
  imgComplete,     \* visibleImg.complete
  imgNaturalHeight,\* visibleImg.naturalHeight
  scrollY,         \* window.scrollY
  imageEvents,     \* load and error events the image has fired
  listeners,       \* listeners on visibleImg: [inv, type]
  invs,            \* one record per call of positionSectionBackground
  sectionTop,      \* sectionBgImg.style.top in px (-1: never assigned)
  sectionOpacity,  \* sectionBgImg.style.opacity ("": never assigned)
  \* ---- responsive images (getBreakpoint / getResponsiveImageUrl) ----
  breakpoint,      \* what the last call of getBreakpoint returned ("": none)
  bpWidth,         \* history: window.innerWidth at that call (-1: none)
  prevBreakpoint,  \* history: what the call before it returned
  prevBpWidth,     \* history: window.innerWidth at the call before it
  imagen,          \* the record last handed to getResponsiveImageUrl
  imageUrl,        \* what getResponsiveImageUrl returned for it
  urlBreakpoint,   \* history: what getBreakpoint returned to that call
  \* ---- random hero image (getRandomImage) ----
  sectionImgEl,    \* document.querySelector(`#${id} img`) finds an element
  sectionImgSrc,   \* the src of that element
  randomCalls,     \* calls of getRandomImage so far
  randomList,      \* history: the imageList of the last call
  randomPick,      \* history: the index getRandomElement drew (0: none)
  randomBp,        \* history: what getBreakpoint returned to that call
  srcBeforeCall,   \* history: the src of the element before that call
  \* ---- debug sink (Debug / debugLog) ----
  kaukaConfig,     \* window.KAUKA_CONFIG: "absent", or its debug field:
                   \* "true" (=== true), "false" (falsy), "truthy" (truthy
                   \* but not true, such as 1 or "true")
  consoleCalls,    \* per level: calls of console[level] so far
  debugCalls,      \* calls of methods of Debug made by the page so far
  lastDebug,       \* history: the last such call: its level, the
                   \* configuration it met and consoleCalls before it
  \* ---- agenda (renderAgenda / updateTitle) ----
  fullCalendarDefined, \* the global FullCalendar is defined
  titleEl,         \* document.querySelector(".fc-toolbar-title") finds one
  titleHtml,       \* titleEl.innerHTML as updateTitle assigned it: its divs
  dayHeaderColspan,\* colspan updateTitle set on .fc-list-day th ("": none)
  agendaVisible,   \* .agenda-container carries the class "visible"
  calendar,        \* "none", "rendered", or "failed" (renderAgenda threw)
  agendaError,     \* the exception renderAgenda threw ("none": none)
  viewType,        \* info.view.type of the last datesSet
  viewStart,       \* info.view.currentStart of the last datesSet
  viewEnd,         \* info.view.currentEnd of the last datesSet
  navs,            \* datesSet callbacks after the first render
  \* ---- home page content (initHomePage / initProjectShowcase) ----
  homeInits,       \* calls of initHomePage so far
  projectContainerEl, \* getElementById("home-project-container") finds one
  homeProjectEl,   \* getElementById("home-project") finds one
  projectDiamondEl,\* getElementById("home-project-diamond") finds one
  projectOf,       \* the request whose first event fills the project
                   \* container ("": the container was never filled)
  projectCursor,   \* homeProject.style.cursor
  projectClickListeners, \* click listeners on #home-project
  hoverListeners,  \* hover and touch listeners on #home-project
  kaukaProgramaCuratorial, \* window.kaukaProgramaCuratorial: the request
                   \* whose events it holds ("": undefined)
  galleryOf,       \* the request whose first artist fills the gallery
  kaukaArtists,    \* window.kaukaArtists: the request whose artists it holds
  renderEventCalls,\* history: calls of renderEvent
  applied          \* history: the requests whose result reached its caller,
                   \* in the order they did

slideVars == <<gsapPresent, galleryEl, gallery, slides, arrowsHidden, handlers,
               totalSlides, currentSlide, gsapX, styleTransform, location,
               renders, clicks, lastOp, prevIndex, opBefore,
                 indexBefore, nextRun, appliedVia,
               gsapAtOp, artistLen, maxImagesArg>>

timeVars == <<timers, nextTimerId>>

scrollEnv == <<scrollTriggerDefined, containerEl, scrollableEl>>

scrollState == <<scrollInit, horizontalScroll, homeHorizontalScroll, triggers,
                 tweens, nextHandle, minHeightSet, killCalls, killedNull,
                 createAttempts, evals, prevEvalWidth, lastEvalWidth,
                 hBeforeEval,
                 createdByEval, killedByEval>>

burstVars == <<sinceResize, burstLen, burstCrossings, burstEvals,
               burstTransitions, evalDelay>>

scrollVars == <<innerWidth, scrollEnv, scrollState, resizeTimeout, resizes,
                burstVars>>

\* what renderArtistGallery and the slideshow write
galleryState == <<gallery, slides, arrowsHidden, handlers, totalSlides,
                  currentSlide, gsapX, styleTransform, renders, clicks, lastOp,
                  prevIndex, opBefore, indexBefore, nextRun,
                 appliedVia, gsapAtOp, artistLen,
                  maxImagesArg>>

\* the slideshow's variables other than window.gsap, which the horizontal
\* scroll reads too
slideOnlyVars == <<galleryEl, gallery, slides, arrowsHidden, handlers,
                   totalSlides, currentSlide, gsapX, styleTransform, location,
                   renders, clicks, lastOp, prevIndex, opBefore,
                 indexBefore, nextRun, appliedVia,
                   gsapAtOp, artistLen, maxImagesArg>>

fetchVars == <<kaukaDebug, req>>

posEnv == <<bundle, homeImgEl, sectionBgEl, visibleImg, imgSvg, scrollY>>

posVars == <<posEnv, imgComplete, imgNaturalHeight, imageEvents, listeners,
             invs, sectionTop, sectionOpacity>>

randVars == <<sectionImgEl, sectionImgSrc, randomCalls, randomList,
              randomPick, randomBp, srcBeforeCall>>

imgVars == <<breakpoint, bpWidth, prevBreakpoint, prevBpWidth, imagen,
             imageUrl, urlBreakpoint, randVars>>

\* the variables of the components added to the page model after the first
\* four
consoleVars == <<kaukaConfig, consoleCalls, debugCalls, lastDebug>>

agendaVars == <<fullCalendarDefined, titleEl, titleHtml, dayHeaderColspan,
                agendaVisible, calendar, agendaError, viewType, viewStart,
                viewEnd, navs>>

showEnv == <<projectContainerEl, homeProjectEl, projectDiamondEl>>

showVars == <<homeInits, showEnv, projectOf, projectCursor,
              projectClickListeners, hoverListeners, kaukaProgramaCuratorial,
              galleryOf, kaukaArtists, renderEventCalls, applied>>

extVars == <<imgVars, consoleVars, agendaVars, showVars>>

nonSlideVars == <<timeVars, scrollVars, fetchVars, posVars, extVars>>

nonScrollVars == <<slideOnlyVars, fetchVars, posVars, extVars>>

nonFetchVars == <<slideVars, timeVars, scrollVars, posVars, extVars>>

nonPosVars == <<slideVars, scrollVars, fetchVars, extVars>>

\* what the responsive image helpers leave alone, window.innerWidth apart
nonImgVars == <<slideVars, timeVars, scrollEnv, scrollState, resizeTimeout,
                resizes, burstVars, fetchVars, posVars, consoleVars,
                agendaVars, showVars>>

nonConsoleVars == <<slideVars, timeVars, scrollVars, fetchVars, posVars,
                    imgVars, agendaVars, showVars>>

\* what the agenda leaves alone, the console apart
nonAgendaVars == <<slideVars, timeVars, scrollVars, fetchVars, posVars,
                   imgVars, kaukaConfig, debugCalls, lastDebug, showVars>>

\* what the project section leaves alone, the console and window.location
\* apart
nonProjectVars == <<gsapPresent, galleryEl, gallery, slides, arrowsHidden,
                    handlers, totalSlides, currentSlide, gsapX, styleTransform,
                    renders, clicks, lastOp, prevIndex, opBefore,
                 indexBefore, nextRun, appliedVia,
                    gsapAtOp, artistLen, maxImagesArg, timeVars,
                    scrollVars, fetchVars, posVars,
                    imgVars, kaukaConfig, debugCalls, lastDebug, agendaVars>>

vars == <<slideVars, timeVars, scrollVars, fetchVars, posVars, extVars>>

(***************************************************************************)
(* Slideshow                                                               *)
(***************************************************************************)
\* default value of the maxImages parameter of renderArtistGallery
DefaultMaxImages == 6

Min(a, b) == IF a <= b THEN a ELSE b

ImagesToShowAll(len, maxImages) == [i \in 1..len |-> i]

\* artist.imagenes.slice(0, maxImages) for a list given by its length: the
\* indices of the images kept, in the record's order
ImagesToShow(len, maxImages) == [i \in 1..Min(len, maxImages) |-> i]

\* the value of the parameter maxImages = 6 for an argument that is omitted
\* (<<>>) or given (<<n>>)
MaxImagesParam(arg) == IF arg = <<>> THEN DefaultMaxImages ELSE arg[1]

TranslateXPerSlide(slideIndex, n) == <<-(slideIndex * 100), 1>>

\* -slideIndex * (100 / totalSlides), in percent, kept as the exact fraction
\* <<numerator, denominator>> (the code computes it in floating point)
TranslateX(slideIndex, n) == <<-(slideIndex * 100), n>>

SkipSlideshowOnlyEmpty(n) == n < 1

\* initializeSlideshow returns before attaching anything
SkipSlideshow(n) == n <= 1

\* the style attribute of both arrows: display:none
ArrowsHiddenFor(n) == n <= 1

\* the % of JavaScript: the remainder takes the sign of the dividend
JsRem(a, b) == IF a >= 0 THEN a % b ELSE -((-a) % b)

NextIndexClamped(cur, n) == IF cur + 1 < n THEN cur + 1 ELSE cur

\* nextSlide: (currentSlide + 1) % totalSlides
NextIndex(cur, n) == JsRem(cur + 1, n)

PrevIndexNoOffset(cur, n) == JsRem(cur - 1, n)

PrevIndexClamped(cur, n) == IF cur > 0 THEN cur - 1 ELSE 0

\* prevSlide: (currentSlide - 1 + totalSlides) % totalSlides
PrevIndex(cur, n) == JsRem(cur - 1 + n, n)

InitialSlideCarried == currentSlide

\* let currentSlide = 0 in initializeSlideshow: the index of a new instance
InitialSlide == 0

\* goToSlide(slideIndex): sets the index and applies the translation
GoToSlide(slideIndex) ==
  /\ currentSlide' = slideIndex
  /\ gsapAtOp' = gsapPresent
  /\ IF gsapPresent
       THEN /\ gsapX' = TranslateX(slideIndex, totalSlides)
            /\ appliedVia' = "gsap"
            /\ UNCHANGED styleTransform
       ELSE /\ styleTransform' = TranslateX(slideIndex, totalSlides)
            /\ appliedVia' = "style"
            /\ UNCHANGED gsapX

\* renderArtistGallery(artist, containerId, maxImages) followed by its call of
\* initializeSlideshow(container, imagesToShow.length); len = artist.imagenes.length,
\* maxImages is <<>> when the argument is omitted and <<n>> when it is n
RenderArtistGalleryBody(len, maxImages) ==
  /\ renders' = renders + 1
  /\ IF ~galleryEl
       THEN UNCHANGED <<gallery, slides, arrowsHidden, handlers, totalSlides,
                        currentSlide, gsapX, styleTransform, clicks, lastOp,
                        prevIndex, opBefore, indexBefore, nextRun,
                 appliedVia, gsapAtOp, artistLen,
                        maxImagesArg>>
       ELSE LET imagesToShow == ImagesToShow(len, MaxImagesParam(maxImages))
                n == Len(imagesToShow)
            IN /\ gallery' = "rendered"
               /\ artistLen' = len
               /\ maxImagesArg' = maxImages
               /\ slides' = imagesToShow
               /\ arrowsHidden' = ArrowsHiddenFor(n)
               \* container.innerHTML replaces the track and the arrows
               /\ gsapX' = NoTransform
               /\ styleTransform' = NoTransform
               /\ totalSlides' = n
               /\ currentSlide' = InitialSlide
               /\ handlers' = IF SkipSlideshow(n) THEN {} ELSE {"next", "prev"}
               /\ clicks' = 0
               /\ lastOp' = "init"
               /\ prevIndex' = currentSlide
               /\ opBefore' = "none"
               /\ indexBefore' = 0
               /\ nextRun' = 0
               /\ appliedVia' = "none"
               /\ gsapAtOp' = gsapPresent

\* a script calls renderArtistGallery(artist, containerId, maxImages)
RenderArtistGallery(len, maxImages) ==
  /\ location = "home"
  /\ renders < MaxRenders
  /\ RenderArtistGalleryBody(len, maxImages)
  /\ UNCHANGED <<gsapPresent, galleryEl, location, nonSlideVars>>

\* a click event on the .slideshow-next arrow
ClickNext ==
  /\ location = "home"
  /\ gallery = "rendered"
  /\ clicks < MaxClicks
  /\ clicks' = clicks + 1
  /\ IF "next" \in handlers
       THEN /\ GoToSlide(NextIndex(currentSlide, totalSlides))
            /\ lastOp' = "next"
            /\ prevIndex' = currentSlide
            /\ opBefore' = lastOp
            /\ indexBefore' = prevIndex
            /\ nextRun' = IF nextRun >= 0 THEN nextRun + 1 ELSE -1
       ELSE UNCHANGED <<currentSlide, gsapX, styleTransform, lastOp, prevIndex,
                 opBefore, indexBefore,
                        nextRun, appliedVia, gsapAtOp>>
  /\ UNCHANGED <<gsapPresent, galleryEl, gallery, slides, arrowsHidden,
                 handlers, totalSlides, location, renders, artistLen,
                 maxImagesArg, nonSlideVars>>

\* a click event on the .slideshow-prev arrow
ClickPrev ==
  /\ location = "home"
  /\ gallery = "rendered"
  /\ clicks < MaxClicks
  /\ clicks' = clicks + 1
  /\ IF "prev" \in handlers
       THEN /\ GoToSlide(PrevIndex(currentSlide, totalSlides))
            /\ lastOp' = "prev"
            /\ prevIndex' = currentSlide
            /\ opBefore' = lastOp
            /\ indexBefore' = prevIndex
            /\ nextRun' = -1
       ELSE UNCHANGED <<currentSlide, gsapX, styleTransform, lastOp, prevIndex,
                 opBefore, indexBefore,
                        nextRun, appliedVia, gsapAtOp>>
  /\ UNCHANGED <<gsapPresent, galleryEl, gallery, slides, arrowsHidden,
                 handlers, totalSlides, location, renders, artistLen,
                 maxImagesArg, nonSlideVars>>

\* a click on a slide image: onclick="window.location.href='${artist.url}'"
ClickSlideImage ==
  /\ location = "home"
  /\ gallery = "rendered"
  /\ Len(slides) > 0
  /\ location' = "artist"
  /\ UNCHANGED <<gsapPresent, galleryEl, gallery, slides, arrowsHidden,
                 handlers, totalSlides, currentSlide, gsapX, styleTransform,
                 renders, clicks, lastOp, prevIndex, opBefore,
                 indexBefore, nextRun, appliedVia,
                 gsapAtOp, artistLen, maxImagesArg, nonSlideVars>>

\* the animation library finishes loading after the page script ran
GsapLoaded ==
  /\ location = "home"
  /\ ~gsapPresent
  /\ gsapPresent' = TRUE
  /\ UNCHANGED <<galleryEl, gallery, slides, arrowsHidden, handlers,
                 totalSlides, currentSlide, gsapX, styleTransform, location,
                 renders, clicks, lastOp, prevIndex, opBefore,
                 indexBefore, nextRun, appliedVia,
                 gsapAtOp, artistLen, maxImagesArg, nonSlideVars>>

(***************************************************************************)
(* Timers                                                                  *)
(***************************************************************************)
\* setTimeout(calculatePosition, 50) in positionSectionBackground
PositionDelay == 50

\* setTimeout(..., 250) in the resize listener of initHomeHorizontalScroll
DebounceDelay == 250

\* time advances in steps of the shortest delay of the program
TickMs == PositionDelay

\* setTimeout(callback, delay): the timer added to the pending ones
SetTimeout(ts, id, kind, inv, delay) ==
  ts \cup {[id |-> id, kind |-> kind, inv |-> inv, remaining |-> delay]}

ClearTimeoutNoop(ts, id) == ts

\* clearTimeout(id): no effect when id is undefined or names no pending timer
ClearTimeout(ts, id) == {t \in ts : t.id # id}

Due(kind) == {t \in timers : t.kind = kind /\ t.remaining = 0}

Elapse(ts) ==
  {[t EXCEPT !.remaining = IF t.remaining > TickMs THEN t.remaining - TickMs
                           ELSE 0] : t \in ts}

(***************************************************************************)
(* Horizontal scroll controller                                            *)
(***************************************************************************)
\* the widths the window takes
Widths == {500, 767, 768, 1000}

\* the md breakpoint below which horizontal scroll is enabled
MdBreakpoint == 768

ShouldDisableAbove(w) == w > MdBreakpoint

\* const shouldDisable = window.innerWidth >= 768
ShouldDisable(w) == w >= MdBreakpoint

ShouldKillWhenEnabled(shouldDisable, h) == ~shouldDisable /\ h # Null

\* if (shouldDisable && horizontalScroll)
ShouldKill(shouldDisable, h) == shouldDisable /\ h # Null

ShouldCreateUnguarded(shouldDisable, h) == ~shouldDisable

\* else if (!shouldDisable && !horizontalScroll)
ShouldCreate(shouldDisable, h) == ~shouldDisable /\ h = Null

InitHorizontalScrollOkNoDom(w, gsapOk, triggerOk, container, scrollable) ==
  ~(w >= MdBreakpoint) /\ gsapOk /\ triggerOk

\* initHorizontalScroll returns a handle (and not null)
InitHorizontalScrollOk(w, gsapOk, triggerOk, container, scrollable) ==
  /\ ~(w >= MdBreakpoint)
  /\ gsapOk
  /\ triggerOk
  /\ container
  /\ scrollable

\* initHorizontalScroll assigns homeContainer.style.minHeight before the checks
\* of the libraries
InitHorizontalScrollSetsMinHeight(w, container) ==
  ~(w >= MdBreakpoint) /\ container

\* handleHorizontalScroll()
HandleHorizontalScroll ==
  LET shouldDisable == ShouldDisable(innerWidth)
      ok == InitHorizontalScrollOk(innerWidth, gsapPresent,
                                   scrollTriggerDefined, containerEl,
                                   scrollableEl)
  IN /\ evals' = evals + 1
     /\ prevEvalWidth' = IF evals = 0 THEN -1 ELSE lastEvalWidth
     /\ lastEvalWidth' = innerWidth
     /\ hBeforeEval' = horizontalScroll
     /\ IF ShouldKill(shouldDisable, horizontalScroll)
          THEN /\ killCalls' = killCalls + 1
               /\ IF horizontalScroll = Null
                    THEN \* null.kill() throws; the callback ends there
                         /\ killedNull' = TRUE
                         /\ UNCHANGED <<triggers, horizontalScroll>>
                         /\ killedByEval' = FALSE
                    ELSE /\ triggers' = triggers \ {horizontalScroll}
                         /\ horizontalScroll' = Null
                         /\ killedByEval' = TRUE
                         /\ UNCHANGED killedNull
               /\ createdByEval' = FALSE
               /\ UNCHANGED <<homeHorizontalScroll, tweens, nextHandle,
                              minHeightSet, createAttempts>>
          ELSE IF ShouldCreate(shouldDisable, horizontalScroll)
                 THEN /\ createAttempts' = createAttempts + 1
                      /\ minHeightSet' =
                           (minHeightSet \/
                            InitHorizontalScrollSetsMinHeight(innerWidth,
                                                              containerEl))
                      /\ IF ok
                           THEN /\ tweens' = tweens \cup {nextHandle}
                                /\ triggers' = triggers \cup {nextHandle}
                                /\ horizontalScroll' = nextHandle
                                /\ homeHorizontalScroll' = nextHandle
                                /\ nextHandle' = nextHandle + 1
                                /\ createdByEval' = TRUE
                           ELSE /\ horizontalScroll' = Null
                                /\ createdByEval' = FALSE
                                /\ UNCHANGED <<tweens, triggers,
                                               homeHorizontalScroll, nextHandle>>
                      /\ killedByEval' = FALSE
                      /\ UNCHANGED <<killCalls, killedNull>>
                 ELSE /\ createdByEval' = FALSE
                      /\ killedByEval' = FALSE
                      /\ UNCHANGED <<horizontalScroll, homeHorizontalScroll,
                                     triggers, tweens, nextHandle, minHeightSet,
                                     killCalls, killedNull, createAttempts>>

\* the handles created or killed by the run of handleHorizontalScroll that
\* this step performs
TransitionsOfStep ==
  (IF createdByEval' THEN 1 ELSE 0) + (IF killedByEval' THEN 1 ELSE 0)

\* initHomeHorizontalScroll(), called by initHomePage once the DOM is ready:
\* the first run of handleHorizontalScroll and the resize listener
InitHomeHorizontalScroll ==
  /\ scrollInit = "none"
  /\ scrollInit' = "done"
  /\ HandleHorizontalScroll
  /\ UNCHANGED <<innerWidth, scrollEnv, gsapPresent, resizeTimeout, resizes,
                 burstVars, timeVars, nonScrollVars>>

\* a resize event: the listener supersedes the pending timer
Resize(w) ==
  /\ scrollInit = "done"
  /\ resizes < MaxResizes
  /\ resizes' = resizes + 1
  /\ innerWidth' = w
  /\ timers' = SetTimeout(ClearTimeout(timers, resizeTimeout), nextTimerId,
                          "resize", 0, DebounceDelay)
  /\ resizeTimeout' = nextTimerId
  /\ nextTimerId' = nextTimerId + 1
  /\ sinceResize' = 0
  /\ LET crossed == IF ShouldDisable(w) # ShouldDisable(innerWidth) THEN 1 ELSE 0
     IN IF timers = {}
          THEN \* a new burst begins
               /\ burstLen' = 1
               /\ burstCrossings' = crossed
               /\ burstEvals' = 0
               /\ burstTransitions' = 0
          ELSE /\ burstLen' = burstLen + 1
               /\ burstCrossings' = burstCrossings + crossed
               /\ UNCHANGED <<burstEvals, burstTransitions>>
  /\ UNCHANGED <<evalDelay, scrollEnv, scrollState, gsapPresent,
                 nonScrollVars>>

\* the debounce timer fires: handleHorizontalScroll runs
ResizeTimerFires ==
  \E t \in Due("resize") :
    /\ timers' = timers \ {t}
    /\ HandleHorizontalScroll
    /\ evalDelay' = sinceResize
    /\ burstEvals' = burstEvals + 1
    /\ burstTransitions' = burstTransitions + TransitionsOfStep
    /\ UNCHANGED <<innerWidth, scrollEnv, scrollInit, gsapPresent,
                   resizeTimeout, resizes, nextTimerId, sinceResize, burstLen,
                   burstCrossings, nonScrollVars>>

\* the invocation records with TickMs more elapsed since their setTimeout
ElapseInvs(is) ==
  [i \in DOMAIN is |->
     IF is[i].scheduled
       THEN [is[i] EXCEPT !.sinceScheduled = Min(@ + TickMs, PositionDelay)]
       ELSE is[i]]

\* TickMs milliseconds pass
Tick ==
  /\ \/ \E t \in timers : t.remaining > 0
     \/ sinceResize < DebounceDelay
     \/ ElapseInvs(invs) # invs
  /\ timers' = Elapse(timers)
  /\ sinceResize' = Min(sinceResize + TickMs, DebounceDelay)
  /\ invs' = ElapseInvs(invs)
  /\ UNCHANGED <<nextTimerId, slideVars, innerWidth, scrollEnv, scrollState,
                 resizeTimeout, resizes, burstLen, burstCrossings, burstEvals,
                 burstTransitions, evalDelay, fetchVars, posEnv, imgComplete,
                 imgNaturalHeight, imageEvents, listeners, sectionTop,
                 sectionOpacity, extVars>>

InitTimeVars ==
  /\ timers = {}
  /\ nextTimerId = 1

InitScrollState ==
  /\ scrollInit = "none"
  /\ horizontalScroll = Null
  /\ homeHorizontalScroll = Null
  /\ triggers = {}
  /\ tweens = {}
  /\ nextHandle = 1
  /\ minHeightSet = FALSE
  /\ resizeTimeout = 0
  /\ resizes = 0
  /\ killCalls = 0
  /\ killedNull = FALSE
  /\ createAttempts = 0
  /\ evals = 0
  /\ prevEvalWidth = -1
  /\ lastEvalWidth = -1
  /\ hBeforeEval = Null
  /\ createdByEval = FALSE
  /\ killedByEval = FALSE
  /\ sinceResize = DebounceDelay
  /\ burstLen = 0
  /\ burstCrossings = 0
  /\ burstEvals = 0
  /\ burstTransitions = 0
  /\ evalDelay = 0

\* the controller of a page on which it is not being exercised
InitScrollIdle ==
  /\ innerWidth = 1000
  /\ scrollTriggerDefined = FALSE
  /\ containerEl = FALSE
  /\ scrollableEl = FALSE
  /\ InitScrollState

(***************************************************************************)
(* Remote content fetchers                                                 *)
(*                                                                         *)
(* Both fetchers are the chain                                             *)
(*   fetch(url).then(checkOk).then(log).catch(toEmpty)                     *)
(* Each reaction runs as a callback of its own, so the chain advances one  *)
(* link per action; a rejection passes through the then-links unchanged.   *)
(***************************************************************************)
Fetchers == {"programa", "artistas"}

\* the calls of the fetchers: each fetcher can be called a second time while
\* its first request is in flight
Requests == {"programa", "artistas", "programa2", "artistas2"}

\* the fetcher a call belongs to
FetcherOf(k) ==
  IF k \in {"programa", "programa2"} THEN "programa" ELSE "artistas"

\* the path each fetcher requests below baseURL
FetchPath(f) ==
  IF f = "programa" THEN "/programa-curatorial/index.json"
  ELSE "/artistas/index.json"

\* HTTP statuses the server answers with
Statuses == {200, 299, 304, 404, 500}

\* response bodies
Bodies == {"[]", "[a]", "[a,b]", "null", "{}", "<html>"}

\* a JavaScript value: an array (by its length), null, an object, or an Error
Val(kind, len) == [kind |-> kind, len |-> len]

EmptyArray == Val("array", 0)

NoVal == Val("undefined", 0)

\* Response.ok: the status is in the range 200-299
ResponseOk(status) == status >= 200 /\ status <= 299

\* response.json() fulfils with the parsed body
JsonParses(body) == body # "<html>"

JsonValue(body) ==
  CASE body = "[]" -> Val("array", 0)
    [] body = "[a]" -> Val("array", 1)
    [] body = "[a,b]" -> Val("array", 2)
    [] body = "null" -> Val("null", 0)
    [] OTHER -> Val("object", 0)

\* the second then-callback throws: fetchArtists reads data.length for its
\* debug line, which fails on null
LogThrows(f, debug, data) == f = "artistas" /\ debug /\ data.kind = "null"

Fulfilled(v) == [state |-> "fulfilled", value |-> v]

Rejected(v) == [state |-> "rejected", value |-> v]

Pending == [state |-> "pending", value |-> NoVal]

CatchRethrows(reason) == Rejected(reason)

\* what the promise returned by .catch((error) => { ...; return []; })
\* settles to when the chain before it rejected
CatchResult(reason) == Fulfilled(EmptyArray)

IdleReq ==
  [pc |-> "idle", url |-> "", status |-> 0, body |-> "", link |-> Pending,
   failure |-> "none", result |-> Pending, errorsLogged |-> 0]

\* fetchProgramaCuratorial(baseURL) / fetchArtists(baseURL): the request goes out
StartFetch(f) ==
  /\ req[f].pc = "idle"
  /\ req' = [req EXCEPT ![f] = [IdleReq EXCEPT !.pc = "fetching",
                                               !.url = FetchPath(FetcherOf(f))]]
  /\ UNCHANGED <<kaukaDebug, nonFetchVars>>

\* the network fails: the promise of fetch() rejects
FetchFails(f) ==
  /\ req[f].pc = "fetching"
  /\ req' = [req EXCEPT ![f].pc = "fetched",
                        ![f].link = Rejected(Val("TypeError", 0)),
                        ![f].failure = "transport"]
  /\ UNCHANGED <<kaukaDebug, nonFetchVars>>

\* a response arrives: the promise of fetch() fulfils, whatever the status
FetchResponds(f, status, body) ==
  /\ req[f].pc = "fetching"
  /\ req' = [req EXCEPT ![f].pc = "fetched",
                        ![f].status = status,
                        ![f].body = body,
                        ![f].link = Fulfilled(Val("response", 0))]
  /\ UNCHANGED <<kaukaDebug, nonFetchVars>>

\* .then((response) => { if (!response.ok) throw ...; return response.json(); })
ThenCheckOk(f) ==
  /\ req[f].pc = "fetched"
  /\ IF req[f].link.state = "rejected"
       THEN req' = [req EXCEPT ![f].pc = "parsed"]
       ELSE IF ~ResponseOk(req[f].status)
              THEN req' = [req EXCEPT ![f].pc = "parsed",
                                      ![f].link = Rejected(Val("HttpError", 0)),
                                      ![f].failure = "http"]
              ELSE req' = [req EXCEPT ![f].pc = "parsing", ![f].link = Pending]
  /\ UNCHANGED <<kaukaDebug, nonFetchVars>>

\* the promise of response.json() settles, and with it the first then-link
JsonSettles(f) ==
  /\ req[f].pc = "parsing"
  /\ IF JsonParses(req[f].body)
       THEN req' = [req EXCEPT ![f].pc = "parsed",
                               ![f].link = Fulfilled(JsonValue(req[f].body))]
       ELSE req' = [req EXCEPT ![f].pc = "parsed",
                               ![f].link = Rejected(Val("SyntaxError", 0)),
                               ![f].failure = "parse"]
  /\ UNCHANGED <<kaukaDebug, nonFetchVars>>

\* .then((data) => { if (window.KAUKA_DEBUG) console.log(...); return data; })
ThenLog(f) ==
  /\ req[f].pc = "parsed"
  /\ IF req[f].link.state = "rejected"
       THEN req' = [req EXCEPT ![f].pc = "logged"]
       ELSE IF LogThrows(FetcherOf(f), kaukaDebug, req[f].link.value)
              THEN req' = [req EXCEPT ![f].pc = "logged",
                                      ![f].link = Rejected(Val("TypeError", 0)),
                                      ![f].failure = "log"]
              ELSE req' = [req EXCEPT ![f].pc = "logged"]
  /\ UNCHANGED <<kaukaDebug, nonFetchVars>>

\* .catch((error) => { console.error(...); return []; }): the returned promise
\* settles
CatchSettles(f) ==
  /\ req[f].pc = "logged"
  /\ IF req[f].link.state = "rejected"
       THEN req' = [req EXCEPT ![f].pc = "settled",
                               ![f].result = CatchResult(req[f].link.value),
                               ![f].errorsLogged = @ + 1]
       ELSE req' = [req EXCEPT ![f].pc = "settled",
                               ![f].result = Fulfilled(req[f].link.value)]
  /\ UNCHANGED <<kaukaDebug, nonFetchVars>>

\* no fetch is in progress and none starts
InitFetchIdle ==
  /\ kaukaDebug = FALSE
  /\ req = [f \in Fetchers |-> IdleReq]

(***************************************************************************)
(* Background positioner                                                   *)
(*                                                                         *)
(* positionSectionBackground exists twice, in home-bundle.js and in        *)
(* utils/debug.js; the two differ in the test of readiness and in the      *)
(* spacer added to the position.  isImageLoaded is defined in both files,  *)
(* so the branch for a missing isImageLoaded is never taken.               *)
(***************************************************************************)
\* naturalHeight of the hero image once it has loaded
ImgHeight == 300

\* const spacer = 12 in calculatePosition of utils/debug.js
Spacer == 12

SpacerOf(b) == IF b = "debug" THEN Spacer ELSE 0

\* isImageLoaded(img)
IsImageLoaded(complete, naturalHeight, svg) ==
  complete /\ (naturalHeight # 0 \/ svg)

\* the test that chooses between setTimeout now and waiting for load/error
ImageReady(b, complete, naturalHeight, svg) ==
  IF b = "debug"
    THEN svg \/ IsImageLoaded(complete, naturalHeight, svg)
    ELSE IsImageLoaded(complete, naturalHeight, svg)

\* homeImg.getBoundingClientRect().bottom: the hero image gives #home-img its
\* height once it has loaded
RectBottom ==
  IF visibleImg /\ imgComplete /\ imgNaturalHeight > 0 THEN imgNaturalHeight
  ELSE 0

\* the value calculatePosition writes to sectionBgImg.style.top
PositionTop(b, bottom, scroll) == bottom + scroll + SpacerOf(b)

NewInv(path, scheduled, calcs) ==
  [path |-> path, scheduled |-> scheduled, sinceScheduled |-> 0,
   calcs |-> calcs, calcDelay |-> 0,
   eventsAtCall |-> imageEvents,
   loadingAtCall |-> visibleImg /\ ~imgComplete,
   loadedAtCall |-> visibleImg /\ imgComplete /\ imgNaturalHeight # 0]

AddListenersOnce(ls, inv) ==
  IF ls = {}
    THEN {[inv |-> inv, type |-> "load"], [inv |-> inv, type |-> "error"]}
    ELSE ls

\* visibleImg.addEventListener("load", onLoad) and ("error", onLoad): onLoad
\* is a new function in every invocation, so every pair is added
AddListeners(ls, inv) ==
  ls \cup {[inv |-> inv, type |-> "load"], [inv |-> inv, type |-> "error"]}

RemoveLoadListenerOnly(ls, inv) ==
  {l \in ls : ~(l.inv = inv /\ l.type = "load")}

\* removeEventListener("load", onLoad); removeEventListener("error", onLoad)
RemoveListeners(ls, inv) == {l \in ls : l.inv # inv}

ElementsMissingBoth(homeImg, sectionBg) == ~homeImg /\ ~sectionBg

\* if (!homeImg || !sectionBgImg): warn and return
ElementsMissing(homeImg, sectionBg) == ~homeImg \/ ~sectionBg

\* positionSectionBackground()
PositionSectionBackgroundBody ==
  LET inv == Len(invs) + 1 IN
     IF ElementsMissing(homeImgEl, sectionBgEl)
       THEN /\ invs' = Append(invs, NewInv("abort", FALSE, 0))
            /\ UNCHANGED <<timeVars, listeners, sectionTop, sectionOpacity>>
       ELSE IF ~visibleImg
         THEN \* calculatePosition() at once
              /\ invs' = Append(invs, NewInv("immediate", FALSE, 1))
              /\ sectionTop' = PositionTop(bundle, RectBottom, scrollY)
              /\ sectionOpacity' = "1"
              /\ UNCHANGED <<timeVars, listeners>>
         ELSE IF ImageReady(bundle, imgComplete, imgNaturalHeight, imgSvg)
           THEN /\ invs' = Append(invs, NewInv("delayed", TRUE, 0))
                /\ timers' = SetTimeout(timers, nextTimerId, "calc", inv,
                                        PositionDelay)
                /\ nextTimerId' = nextTimerId + 1
                /\ UNCHANGED <<listeners, sectionTop, sectionOpacity>>
           ELSE /\ invs' = Append(invs, NewInv("wait", FALSE, 0))
                /\ listeners' = AddListeners(listeners, inv)
                /\ UNCHANGED <<timeVars, sectionTop, sectionOpacity>>

\* a call of positionSectionBackground()
PositionSectionBackground ==
  /\ Len(invs) < MaxInvocations
  /\ PositionSectionBackgroundBody
  /\ UNCHANGED <<posEnv, imgComplete, imgNaturalHeight, imageEvents,
                 nonPosVars>>

\* the invocations whose onLoad listener an event of this type reaches
Reached(type) == {l.inv : l \in {m \in listeners : m.type = type}}

\* the number of invocations of S registered before inv
Rank(S, inv) == Cardinality({j \in S : j < inv})

\* the image fires an event of this type: every onLoad registered for it runs
\* (setTimeout(calculatePosition, 50), then both listeners removed)
Dispatch(type) ==
  LET S == Reached(type) IN
  /\ timers' = timers \cup
       {[id |-> nextTimerId + Rank(S, i), kind |-> "calc", inv |-> i,
         remaining |-> PositionDelay] : i \in S}
  /\ nextTimerId' = nextTimerId + Cardinality(S)
  /\ listeners' =
       {l \in listeners :
          \A i \in S : l \in RemoveListeners(listeners, i)}
  /\ invs' = [i \in DOMAIN invs |->
                IF i \in S
                  THEN [invs[i] EXCEPT !.scheduled = TRUE,
                                       !.sinceScheduled = 0]
                  ELSE invs[i]]

\* the visible image finishes loading
ImageLoads(height) ==
  /\ visibleImg /\ ~imgComplete
  /\ imageEvents < MaxImageEvents
  /\ imageEvents' = imageEvents + 1
  /\ imgComplete' = TRUE
  /\ imgNaturalHeight' = height
  /\ Dispatch("load")
  /\ UNCHANGED <<posEnv, sectionTop, sectionOpacity, nonPosVars>>

\* the visible image fails to load
ImageErrors ==
  /\ visibleImg /\ ~imgComplete
  /\ imageEvents < MaxImageEvents
  /\ imageEvents' = imageEvents + 1
  /\ imgComplete' = TRUE
  /\ imgNaturalHeight' = 0
  /\ Dispatch("error")
  /\ UNCHANGED <<posEnv, sectionTop, sectionOpacity, nonPosVars>>

\* the image starts loading again (its source is fetched anew)
ImageReloads ==
  /\ visibleImg /\ imgComplete
  /\ imageEvents < MaxImageEvents
  /\ imgComplete' = FALSE
  /\ imgNaturalHeight' = 0
  /\ UNCHANGED <<posEnv, imageEvents, listeners, invs, sectionTop,
                 sectionOpacity, timeVars, nonPosVars>>

\* a timer set by setTimeout(calculatePosition, 50) fires: calculatePosition()
CalcTimerFires ==
  \E t \in Due("calc") :
    /\ timers' = timers \ {t}
    /\ invs' = [invs EXCEPT ![t.inv].calcs = @ + 1,
                            ![t.inv].calcDelay = invs[t.inv].sinceScheduled]
    /\ sectionTop' = PositionTop(bundle, RectBottom, scrollY)
    /\ sectionOpacity' = "1"
    /\ UNCHANGED <<nextTimerId, posEnv, imgComplete, imgNaturalHeight,
                   imageEvents, listeners, nonPosVars>>

InitPosState ==
  /\ imageEvents = 0
  /\ listeners = {}
  /\ invs = <<>>
  /\ sectionTop = -1
  /\ sectionOpacity = ""

\* the positioner of a page on which it is not being exercised
InitPosIdle ==
  /\ bundle = "home"
  /\ homeImgEl = FALSE
  /\ sectionBgEl = FALSE
  /\ visibleImg = FALSE
  /\ imgSvg = FALSE
  /\ imgComplete = FALSE
  /\ imgNaturalHeight = 0
  /\ scrollY = 0
  /\ InitPosState

(***************************************************************************)
(* Responsive images                                                       *)
(***************************************************************************)
Breakpoints == {"all", "sm", "md", "lg", "xl", "2xl"}

\* viewport widths on both sides of every threshold of getBreakpoint
ViewportWidths == {639, 640, 767, 768, 1023, 1024, 1279, 1280, 1535, 1536}

GetBreakpointSmFrom641(w) ==
  IF w >= 1536 THEN "2xl"
  ELSE IF w >= 1280 THEN "xl"
  ELSE IF w >= 1024 THEN "lg"
  ELSE IF w >= 768 THEN "md"
  ELSE IF w > 640 THEN "sm"
  ELSE "all"

\* getBreakpoint() when window.innerWidth is w
GetBreakpoint(w) ==
  IF w >= 1536 THEN "2xl"
  ELSE IF w >= 1280 THEN "xl"
  ELSE IF w >= 1024 THEN "lg"
  ELSE IF w >= 768 THEN "md"
  ELSE IF w >= 640 THEN "sm"
  ELSE "all"

\* the value of a property the object does not have
Undefined == "undefined"

\* the operand of || counts as true: neither undefined nor the empty string
Truthy(v) == v # Undefined /\ v # ""

\* the URL a record holds for breakpoint b
ResponsiveUrl(b) == "img-" \o b \o ".jpg"

OriginalSrc == "img-original.jpg"

\* the breakpoints for which the records of the model hold a URL, and those
\* for which they hold an empty string
PresentSets == {{}, Breakpoints, {"all", "md", "xl"}}

EmptySets == {{}, {"sm", "md"}}

\* image records: a responsive map and an original
Imagenes ==
  {[responsive |-> [b \in Breakpoints |->
                      IF b \in P THEN ResponsiveUrl(b)
                      ELSE IF b \in E THEN "" ELSE Undefined],
    original |-> [src |-> OriginalSrc]] : P \in PresentSets, E \in EmptySets}

\* no record
NoImagen == [responsive |-> [b \in Breakpoints |-> Undefined],
             original |-> [src |-> Undefined]]

GetResponsiveImageUrlNoFallback(img, w) == img.responsive[GetBreakpoint(w)]

\* getResponsiveImageUrl(imagen) when window.innerWidth is w:
\* imagen.responsive[bp] || imagen.original.src
GetResponsiveImageUrl(img, w) ==
  LET bp == GetBreakpoint(w) IN
  IF Truthy(img.responsive[bp]) THEN img.responsive[bp] ELSE img.original.src

\* the window takes another width; no resize listener is registered
SetViewport(w) ==
  /\ scrollInit = "none"
  /\ w # innerWidth
  /\ innerWidth' = w
  /\ UNCHANGED <<imgVars, nonImgVars>>

\* a call of getBreakpoint()
CallGetBreakpoint ==
  /\ breakpoint' = GetBreakpoint(innerWidth)
  /\ bpWidth' = innerWidth
  /\ prevBreakpoint' = breakpoint
  /\ prevBpWidth' = bpWidth

\* a call of getBreakpoint() from the page
GetBreakpointCalled ==
  /\ CallGetBreakpoint
  /\ UNCHANGED <<imagen, imageUrl, urlBreakpoint, randVars, innerWidth,
                 nonImgVars>>

\* a call of getResponsiveImageUrl(img), which calls getBreakpoint()
GetResponsiveImageUrlCalled(img) ==
  /\ CallGetBreakpoint
  /\ imagen' = img
  /\ imageUrl' = GetResponsiveImageUrl(img, innerWidth)
  /\ urlBreakpoint' = GetBreakpoint(innerWidth)
  /\ UNCHANGED <<randVars, innerWidth, nonImgVars>>

\* the src the target image has in the page as served
InitialSrc == "img-static.jpg"

\* image sets: objects keyed by breakpoint, holding a URL for all, for some
\* or for none of the breakpoints
ImageSets ==
  {[b \in Breakpoints |-> IF b \in P THEN ResponsiveUrl(b) ELSE Undefined] :
     P \in PresentSets}

\* the imageList argument: not given (the configuration lacks the property),
\* or an array of image sets
NoImageList == [given |-> FALSE, sets |-> <<>>]

ImageLists ==
  {NoImageList} \cup
  {[given |-> TRUE, sets |-> q] :
     q \in UNION {[1..n -> ImageSets] : n \in 0..MaxImageList}}

\* getRandomElement(array) returns null: if (!array || array.length === 0)
NothingToDraw(list) == ~list.given \/ Len(list.sets) = 0

\* the indices Math.floor(Math.random() * array.length) can give, counted
\* from 1; 0 stands for no draw
RandomIndexes(list) ==
  IF NothingToDraw(list) THEN {0} ELSE 1..Len(list.sets)

\* getRandomImage(imageList, id) when getRandomElement draws the element idx
GetRandomImageBody(list, idx) ==
  /\ randomCalls' = randomCalls + 1
  /\ randomList' = list
  /\ srcBeforeCall' = sectionImgSrc
  /\ randomPick' = idx
  /\ IF NothingToDraw(list)
       THEN /\ randomBp' = ""
            /\ UNCHANGED <<breakpoint, bpWidth, prevBreakpoint, prevBpWidth,
                           sectionImgSrc>>
       ELSE /\ CallGetBreakpoint
            /\ randomBp' = GetBreakpoint(innerWidth)
            \* imgEl.src = randomImageSet[bp]
            /\ sectionImgSrc' =
                 IF sectionImgEl
                   THEN list.sets[idx][GetBreakpoint(innerWidth)]
                   ELSE sectionImgSrc

\* a call of getRandomImage(imageList, id)
GetRandomImageCalled(list, idx) ==
  /\ randomCalls < MaxRandomCalls
  /\ idx \in RandomIndexes(list)
  /\ GetRandomImageBody(list, idx)
  /\ UNCHANGED <<sectionImgEl, imagen, imageUrl, urlBreakpoint, innerWidth,
                 nonImgVars>>

InitRandomState ==
  /\ sectionImgSrc = InitialSrc
  /\ randomCalls = 0
  /\ randomList = NoImageList
  /\ randomPick = 0
  /\ randomBp = ""
  /\ srcBeforeCall = InitialSrc

\* the helpers on a page on which they are not being exercised
InitImageIdle ==
  /\ breakpoint = ""
  /\ bpWidth = -1
  /\ prevBreakpoint = ""
  /\ prevBpWidth = -1
  /\ imagen = NoImagen
  /\ imageUrl = Undefined
  /\ urlBreakpoint = ""
  /\ sectionImgEl = FALSE
  /\ InitRandomState

(***************************************************************************)
(* Debug sink                                                              *)
(***************************************************************************)
\* the methods of Debug, named as the console methods they forward to
Levels == {"log", "warn", "error", "debug", "info"}

ConfigValues == {"absent", "true", "false", "truthy"}

DebugEnabledIfTruthy(config) == config \in {"true", "truthy"}

\* window.KAUKA_CONFIG && window.KAUKA_CONFIG.debug === true
DebugEnabled(config) == config = "true"

\* n calls of console[level]
ConsoleCall(calls, level, n) == [calls EXCEPT ![level] = @ + n]

\* n calls of debugLog(level, ...); every browser console has the five
\* methods, so the inner typeof test passes
DebugLog(calls, config, level, n) ==
  IF DebugEnabled(config) THEN ConsoleCall(calls, level, n) ELSE calls

NoConsoleCalls == [l \in Levels |-> 0]

NoDebugCall == [level |-> "", config |-> "", before |-> NoConsoleCalls]

\* the page calls Debug[level](...)
DebugCalled(level) ==
  /\ debugCalls < MaxDebugCalls
  /\ debugCalls' = debugCalls + 1
  /\ consoleCalls' = DebugLog(consoleCalls, kaukaConfig, level, 1)
  /\ lastDebug' = [level |-> level, config |-> kaukaConfig,
                   before |-> consoleCalls]
  /\ UNCHANGED <<kaukaConfig, nonConsoleVars>>

\* a script assigns window.KAUKA_CONFIG or its debug field
SetConfig(c) ==
  /\ c # kaukaConfig
  /\ kaukaConfig' = c
  /\ UNCHANGED <<consoleCalls, debugCalls, lastDebug, nonConsoleVars>>

InitConsoleState ==
  /\ consoleCalls = NoConsoleCalls
  /\ debugCalls = 0
  /\ lastDebug = NoDebugCall

\* the configuration of a page that does not exercise the sink
InitConsoleIdle ==
  /\ kaukaConfig = "false"
  /\ InitConsoleState

(***************************************************************************)
(* Agenda                                                                  *)
(*                                                                         *)
(* FullCalendar and Luxon are libraries the page loads.  FullCalendar is   *)
(* the environment: it calls viewDidMount and datesSet during render() and *)
(* after every navigation, with a view type and a pair of boundaries.      *)
(* Dates are the calendar dates Luxon reads off the Date objects.          *)
(***************************************************************************)
CalDate(y, m, d) == [y |-> y, m |-> m, d |-> d]

NoDate == CalDate(0, 0, 0)

IsLeap(y) == (y % 4 = 0 /\ y % 100 # 0) \/ y % 400 = 0

DaysInMonth(y, m) ==
  IF m = 2 THEN (IF IsLeap(y) THEN 29 ELSE 28)
  ELSE IF m \in {4, 6, 9, 11} THEN 30 ELSE 31

\* the date n days after date, for n below four weeks
AddDays(date, n) ==
  LET dim == DaysInMonth(date.y, date.m) IN
  IF date.d + n <= dim THEN CalDate(date.y, date.m, date.d + n)
  ELSE IF date.m = 12 THEN CalDate(date.y + 1, 1, date.d + n - dim)
  ELSE CalDate(date.y, date.m + 1, date.d + n - dim)

\* info.view.currentStart values
StartDates ==
  {CalDate(y, m, d) : y \in {2024, 2025}, m \in {2, 5, 12}, d \in {5, 26}}
    \cup {CalDate(2025, 4, 28)}

\* days from info.view.currentStart to info.view.currentEnd
Spans == {6, 7}

ViewTypes == {"listWeek", "listMonth", "listDay"}

\* toFormat("LLLL") of a Luxon date with locale "es"
MonthNameEs(m) ==
  CASE m = 1 -> "enero"
    [] m = 2 -> "febrero"
    [] m = 3 -> "marzo"
    [] m = 4 -> "abril"
    [] m = 5 -> "mayo"
    [] m = 6 -> "junio"
    [] m = 7 -> "julio"
    [] m = 8 -> "agosto"
    [] m = 9 -> "septiembre"
    [] m = 10 -> "octubre"
    [] m = 11 -> "noviembre"
    [] OTHER -> "diciembre"

\* toFormat("d"): the day of the month, not padded
FormatDay(date) == ToString(date.d)

\* startDate.hasSame(endDate, "month"): the same month of the same year
HasSameMonth(a, b) == a.y = b.y /\ a.m = b.m

\* <div class="...">text</div>
Div(class, text) == [class |-> class, text |-> text]

WeekTitleAlwaysLong(start, end) ==
  <<Div("agenda-days",
        FormatDay(start) \o " de " \o MonthNameEs(start.m) \o " - "
          \o FormatDay(end) \o " de " \o MonthNameEs(end.m))>>

\* titleTemplate of the listWeek branch of updateTitle
WeekTitle(start, end) ==
  IF HasSameMonth(start, end)
    THEN <<Div("agenda-days", FormatDay(start) \o " - " \o FormatDay(end)),
           Div("agenda-month", MonthNameEs(start.m))>>
    ELSE <<Div("agenda-days",
               FormatDay(start) \o " de " \o MonthNameEs(start.m) \o " - "
                 \o FormatDay(end) \o " de " \o MonthNameEs(end.m))>>

\* titleTemplate of the listMonth branch of updateTitle
MonthTitle(start) == <<Div("agenda-month", MonthNameEs(start.m))>>

\* updateTitle(".fc-toolbar-title", info), entered with console calls `calls`
UpdateTitle(calls, type, start, end) ==
  LET c1 == DebugLog(calls, kaukaConfig, "log", 1) IN
  IF ~titleEl
    THEN /\ consoleCalls' = c1
         /\ UNCHANGED <<titleHtml, dayHeaderColspan>>
    ELSE IF type = "listWeek"
      THEN /\ consoleCalls' = DebugLog(c1, kaukaConfig, "info", 3)
           /\ titleHtml' = WeekTitle(start, end)
           /\ dayHeaderColspan' = "4"
      ELSE IF type = "listMonth"
        THEN /\ consoleCalls' = c1
             /\ titleHtml' = MonthTitle(start)
             /\ UNCHANGED dayHeaderColspan
        ELSE /\ consoleCalls' = c1
             /\ UNCHANGED <<titleHtml, dayHeaderColspan>>

\* initAgendaOnReady() and renderAgenda(): the calendar is constructed and
\* render() mounts the listWeek view, which calls viewDidMount and datesSet
RenderAgenda(start, span) ==
  /\ calendar = "none"
  /\ LET c2 == DebugLog(consoleCalls, kaukaConfig, "log", 2) IN
     IF ~fullCalendarDefined
       THEN \* new FullCalendar.Calendar(...) throws
            /\ calendar' = "failed"
            /\ agendaError' = "ReferenceError"
            /\ consoleCalls' = c2
            /\ UNCHANGED <<titleHtml, dayHeaderColspan, agendaVisible,
                           viewType, viewStart, viewEnd>>
       ELSE IF kaukaConfig = "absent"
         THEN \* events: window.KAUKA_CONFIG.events throws
              /\ calendar' = "failed"
              /\ agendaError' = "TypeError"
              /\ consoleCalls' = c2
              /\ UNCHANGED <<titleHtml, dayHeaderColspan, agendaVisible,
                             viewType, viewStart, viewEnd>>
         ELSE /\ calendar' = "rendered"
              /\ agendaError' = "none"
              /\ agendaVisible' = TRUE
              /\ viewType' = "listWeek"
              /\ viewStart' = start
              /\ viewEnd' = AddDays(start, span)
              /\ UpdateTitle(DebugLog(c2, kaukaConfig, "info", 2),
                             "listWeek", start, AddDays(start, span))
  /\ UNCHANGED <<fullCalendarDefined, titleEl, navs, nonAgendaVars>>

\* the visitor navigates (prev, next, listWeek, listMonth, a date click):
\* viewDidMount runs when the view type changes, then datesSet
DatesSet(type, start, span) ==
  /\ calendar = "rendered"
  /\ navs < MaxNavs
  /\ navs' = navs + 1
  /\ agendaVisible' = TRUE
  /\ viewType' = type
  /\ viewStart' = start
  /\ viewEnd' = AddDays(start, span)
  /\ UpdateTitle(DebugLog(consoleCalls, kaukaConfig, "info",
                          IF type # viewType THEN 2 ELSE 1),
                 type, start, AddDays(start, span))
  /\ UNCHANGED <<fullCalendarDefined, titleEl, calendar, agendaError,
                 nonAgendaVars>>

InitAgendaState ==
  /\ titleHtml = <<>>
  /\ dayHeaderColspan = ""
  /\ agendaVisible = FALSE
  /\ calendar = "none"
  /\ agendaError = "none"
  /\ viewType = ""
  /\ viewStart = NoDate
  /\ viewEnd = NoDate
  /\ navs = 0

\* the agenda on a page that does not hold it
InitAgendaIdle ==
  /\ fullCalendarDefined = FALSE
  /\ titleEl = FALSE
  /\ InitAgendaState

(***************************************************************************)
(* Home page content: the project section                                  *)
(***************************************************************************)
\* renderEvent(event) and its call of initializeProjectClickHandler(event.url),
\* entered with console calls `calls`; k names the request the event came
\* with, hasUrl tells whether event.url is truthy
RenderEvent(calls, k, hasUrl) ==
  /\ renderEventCalls' = renderEventCalls + 1
  /\ IF ~projectContainerEl
       THEN \* console.error("Home project container not found"); return
            /\ consoleCalls' = ConsoleCall(calls, "error", 1)
            /\ UNCHANGED <<projectOf, projectCursor, projectClickListeners>>
       ELSE /\ projectOf' = k
            /\ consoleCalls' =
                 IF kaukaDebug THEN ConsoleCall(calls, "log", 1) ELSE calls
            /\ IF homeProjectEl /\ hasUrl
                 THEN /\ projectCursor' = "pointer"
                      /\ projectClickListeners' = projectClickListeners + 1
                 ELSE UNCHANGED <<projectCursor, projectClickListeners>>

\* a script calls renderEvent(event)
RenderEventCalled(k, hasUrl) ==
  /\ location = "home"
  /\ renderEventCalls < MaxRenders
  /\ RenderEvent(consoleCalls, k, hasUrl)
  /\ UNCHANGED <<homeInits, showEnv, hoverListeners, kaukaProgramaCuratorial,
                 galleryOf, kaukaArtists, applied, location, nonProjectVars>>

\* a click on #home-project: every listener sets window.location.href
ClickProject ==
  /\ location = "home"
  /\ projectClickListeners > 0
  /\ location' = "event"
  /\ consoleCalls' =
       IF kaukaDebug
         THEN ConsoleCall(consoleCalls, "log", projectClickListeners)
         ELSE consoleCalls
  /\ UNCHANGED <<showVars, nonProjectVars>>

(***************************************************************************)
(* Home page content: initHomePage and the two fetch-and-render requests   *)
(*                                                                         *)
(* initHomePage and initProjectShowcase are global functions: the page     *)
(* calls initHomePage once, and a script may call either again while the   *)
(* requests of the first call are in flight.  A request is named by the    *)
(* call that issued it, and so is the content it brought.                  *)
(***************************************************************************)
\* artists[0].imagenes.length of a response that holds artists
HomeArtistImagenes == 3

\* the responses of the server to the requests of the home page
HomeResponses == {<<200, "[a]">>, <<200, "[]">>}

\* the request a new call of fetcher f issues
FreeKey(f) ==
  IF req[f].pc = "idle" THEN f
  ELSE IF f = "programa" THEN "programa2" ELSE "artistas2"

\* fetch(url) goes out for request k
StartReq(r, k) ==
  [r EXCEPT ![k] = [IdleReq EXCEPT !.pc = "fetching",
                                   !.url = FetchPath(FetcherOf(k))]]

HasContentAlways(v) == TRUE

HasContentIfArray(v) == v.kind = "array"

\* events && events.length > 0 (artists && artists.length > 0)
HasContent(v) == v.kind = "array" /\ v.len > 0

\* initProjectShowcase() up to its call of fetchProgramaCuratorial: its own
\* console.log and initializeProjectDiamondHover(), entered with console
\* calls `calls` and window.KAUKA_DEBUG = debug
ShowcaseSetup(calls, debug) ==
  LET c1 == ConsoleCall(calls, "log", 1) IN
  IF homeProjectEl /\ projectDiamondEl
    THEN /\ hoverListeners' = hoverListeners + 5
         /\ consoleCalls' = IF debug THEN ConsoleCall(c1, "log", 2) ELSE c1
    ELSE /\ UNCHANGED hoverListeners
         /\ consoleCalls' = IF debug THEN ConsoleCall(c1, "log", 1) ELSE c1

\* a call of initProjectShowcase() by a script
InitProjectShowcase ==
  /\ location = "home"
  /\ req[FreeKey("programa")].pc = "idle"
  /\ ShowcaseSetup(consoleCalls, kaukaDebug)
  /\ req' = StartReq(req, FreeKey("programa"))
  /\ UNCHANGED <<slideVars, kaukaDebug, timeVars, scrollVars, posVars,
                 imgVars, kaukaConfig, debugCalls, lastDebug, agendaVars,
                 homeInits, showEnv, projectOf, projectCursor,
                 projectClickListeners, kaukaProgramaCuratorial, galleryOf,
                 kaukaArtists, renderEventCalls, applied>>

\* window.KAUKA_CONFIG.componenteUno of a configuration that holds the image
\* sets: one set with a URL for every breakpoint
HomeImageList ==
  [given |-> TRUE,
   sets |-> <<[b \in Breakpoints |-> ResponsiveUrl(b)]>>]

\* a call of initHomePage(); imagesConfigured: window.KAUKA_CONFIG holds
\* componenteUno.  The console calls counted are those of initHomePage and
\* initProjectShowcase themselves.
InitHomePage(imagesConfigured) ==
  /\ location = "home"
  /\ homeInits < MaxHomeInits
  /\ req[FreeKey("artistas")].pc = "idle"
  /\ req[FreeKey("programa")].pc = "idle"
  /\ Len(invs) < MaxInvocations
  /\ imagesConfigured => kaukaConfig # "absent"
  /\ homeInits' = homeInits + 1
  \* window.KAUKA_DEBUG = true
  /\ kaukaDebug' = TRUE
  \* getRandomImage(window.KAUKA_CONFIG.componenteUno, "section-img-one");
  \* the calls for the two other sections act alike on their own elements
  /\ IF imagesConfigured
       THEN /\ GetRandomImageBody(HomeImageList, 1)
            /\ UNCHANGED <<sectionImgEl, imagen, imageUrl, urlBreakpoint>>
       ELSE UNCHANGED imgVars
  \* initHomeHorizontalScroll()
  /\ scrollInit' = "done"
  /\ HandleHorizontalScroll
  \* fetchArtists(baseURL).then(...).catch(...), and initProjectShowcase()
  /\ req' = StartReq(StartReq(req, FreeKey("artistas")), FreeKey("programa"))
  /\ PositionSectionBackgroundBody
  /\ LET c1 == ConsoleCall(consoleCalls, "log", 3)
         c2 == IF imagesConfigured THEN ConsoleCall(c1, "log", 2)
               ELSE ConsoleCall(c1, "warn", 1)
     IN ShowcaseSetup(c2, TRUE)
  /\ UNCHANGED <<slideVars, innerWidth, scrollEnv, resizeTimeout, resizes,
                 burstVars, posEnv, imgComplete, imgNaturalHeight, imageEvents,
                 kaukaConfig, debugCalls, lastDebug, agendaVars,
                 showEnv, projectOf, projectCursor, projectClickListeners,
                 kaukaProgramaCuratorial, galleryOf, kaukaArtists,
                 renderEventCalls, applied>>

\* the reaction initHomePage attached to fetchArtists(baseURL) runs for
\* request k: .then((artists) => ...) or .catch(...)
DeliverArtists(k) ==
  /\ location = "home"
  /\ FetcherOf(k) = "artistas"
  /\ req[k].pc = "settled"
  /\ req' = [req EXCEPT ![k].pc = "delivered"]
  /\ applied' = Append(applied, k)
  /\ IF req[k].result.state = "fulfilled" /\ HasContent(req[k].result.value)
       THEN /\ consoleCalls' = ConsoleCall(consoleCalls, "log", 1)
            /\ RenderArtistGalleryBody(HomeArtistImagenes, <<>>)
            /\ galleryOf' = IF galleryEl THEN k ELSE galleryOf
            /\ kaukaArtists' = k
       ELSE /\ consoleCalls' =
                 ConsoleCall(consoleCalls,
                             IF req[k].result.state = "fulfilled"
                               THEN "warn" ELSE "error", 1)
            /\ UNCHANGED <<galleryState, galleryOf, kaukaArtists>>
  /\ UNCHANGED <<gsapPresent, galleryEl, location, kaukaDebug, timeVars,
                 scrollVars, posVars, imgVars, kaukaConfig, debugCalls,
                 lastDebug, agendaVars, homeInits, showEnv, projectOf,
                 projectCursor, projectClickListeners, hoverListeners,
                 kaukaProgramaCuratorial, renderEventCalls>>

\* the reaction initProjectShowcase attached to fetchProgramaCuratorial(baseURL)
\* runs for request k
DeliverPrograma(k) ==
  /\ location = "home"
  /\ FetcherOf(k) = "programa"
  /\ req[k].pc = "settled"
  /\ req' = [req EXCEPT ![k].pc = "delivered"]
  /\ applied' = Append(applied, k)
  /\ IF req[k].result.state = "fulfilled" /\ HasContent(req[k].result.value)
       THEN /\ RenderEvent(ConsoleCall(consoleCalls, "log", 2), k, TRUE)
            /\ kaukaProgramaCuratorial' = k
       ELSE /\ consoleCalls' =
                 ConsoleCall(consoleCalls,
                             IF req[k].result.state = "fulfilled"
                               THEN "warn" ELSE "error", 1)
            /\ UNCHANGED <<projectOf, projectCursor, projectClickListeners,
                           renderEventCalls, kaukaProgramaCuratorial>>
  /\ UNCHANGED <<slideVars, kaukaDebug, timeVars, scrollVars, posVars,
                 imgVars, kaukaConfig, debugCalls, lastDebug, agendaVars,
                 homeInits, showEnv, hoverListeners, galleryOf, kaukaArtists>>

InitShowState ==
  /\ homeInits = 0
  /\ projectOf = ""
  /\ projectCursor = ""
  /\ projectClickListeners = 0
  /\ hoverListeners = 0
  /\ kaukaProgramaCuratorial = ""
  /\ galleryOf = ""
  /\ kaukaArtists = ""
  /\ renderEventCalls = 0
  /\ applied = <<>>

\* the project section of a page that does not hold it
InitShowIdle ==
  /\ projectContainerEl = FALSE
  /\ homeProjectEl = FALSE
  /\ projectDiamondEl = FALSE
  /\ InitShowState

InitExtIdle ==
  InitImageIdle /\ InitConsoleIdle /\ InitAgendaIdle /\ InitShowIdle

InitSlideVars ==
  /\ gsapPresent \in BOOLEAN
  /\ galleryEl \in BOOLEAN
  /\ gallery = "none"
  /\ slides = <<>>
  /\ arrowsHidden = FALSE
  /\ handlers = {}
  /\ totalSlides = 0
  /\ currentSlide = 0
  /\ gsapX = NoTransform
  /\ styleTransform = NoTransform
  /\ location = "home"
  /\ renders = 0
  /\ clicks = 0
  /\ lastOp = "init"
  /\ prevIndex = 0
  /\ opBefore = "none"
  /\ indexBefore = 0
  /\ nextRun = 0
  /\ appliedVia = "none"
  /\ gsapAtOp = gsapPresent
  /\ artistLen = 0
  /\ maxImagesArg = <<>>

\* maxImages arguments: omitted, or a number
MaxImagesArgs == {<<>>, <<0>>, <<3>>, <<MaxImagenes>>}

InitSlide ==
  /\ InitSlideVars /\ InitTimeVars /\ InitScrollIdle /\ InitFetchIdle
  /\ InitPosIdle /\ InitExtIdle

NextSlide ==
  \/ \E len \in 0..MaxImagenes, maxImages \in MaxImagesArgs :
       RenderArtistGallery(len, maxImages)
  \/ ClickNext
  \/ ClickPrev
  \/ ClickSlideImage
  \/ GsapLoaded

SpecSlide == InitSlide /\ [][NextSlide]_vars

InitScroll ==
  /\ InitSlideVars
  /\ galleryEl = FALSE
  /\ InitTimeVars
  /\ innerWidth \in Widths
  /\ scrollTriggerDefined \in BOOLEAN
  /\ containerEl \in BOOLEAN
  /\ scrollableEl \in BOOLEAN
  /\ InitScrollState
  /\ InitFetchIdle
  /\ InitPosIdle
  /\ InitExtIdle

NextScroll ==
  \/ InitHomeHorizontalScroll
  \/ \E w \in Widths : Resize(w)
  \/ ResizeTimerFires
  \/ Tick

SpecScroll == InitScroll /\ [][NextScroll]_vars

InitFetch ==
  /\ InitSlideVars
  /\ gsapPresent = FALSE
  /\ galleryEl = FALSE
  /\ InitTimeVars
  /\ InitScrollIdle
  /\ kaukaDebug \in BOOLEAN
  /\ req = [f \in Fetchers |-> IdleReq]
  /\ InitPosIdle
  /\ InitExtIdle

NextFetch ==
  \E f \in Fetchers :
    \/ StartFetch(f)
    \/ FetchFails(f)
    \/ \E status \in Statuses, body \in Bodies : FetchResponds(f, status, body)
    \/ ThenCheckOk(f)
    \/ JsonSettles(f)
    \/ ThenLog(f)
    \/ CatchSettles(f)

SpecFetch == InitFetch /\ [][NextFetch]_vars

\* window.scrollY when the positioner runs
ScrollOffsets == {0, 100}

InitPos ==
  /\ InitSlideVars
  /\ gsapPresent = FALSE
  /\ galleryEl = FALSE
  /\ InitTimeVars
  /\ InitScrollIdle
  /\ InitFetchIdle
  /\ bundle \in {"home", "debug"}
  /\ homeImgEl \in BOOLEAN
  /\ sectionBgEl \in BOOLEAN
  /\ visibleImg \in BOOLEAN
  /\ imgSvg \in BOOLEAN
  /\ imgComplete \in BOOLEAN
  /\ imgNaturalHeight \in {0, ImgHeight}
  /\ scrollY \in ScrollOffsets
  \* an image that is absent or still loading has no natural height, and
  \* only an image has a source
  /\ (~visibleImg \/ ~imgComplete) => imgNaturalHeight = 0
  /\ ~visibleImg => (~imgSvg /\ ~imgComplete)
  /\ InitPosState
  /\ InitExtIdle

NextPos ==
  \/ PositionSectionBackground
  \/ \E h \in {0, ImgHeight} : (h = 0 => imgSvg) /\ ImageLoads(h)
  \/ ImageErrors
  \/ ImageReloads
  \/ CalcTimerFires
  \/ Tick

SpecPos == InitPos /\ [][NextPos]_vars

InitImage ==
  /\ InitSlideVars
  /\ gsapPresent = FALSE
  /\ galleryEl = FALSE
  /\ InitTimeVars
  /\ innerWidth \in ViewportWidths
  /\ scrollTriggerDefined = FALSE
  /\ containerEl = FALSE
  /\ scrollableEl = FALSE
  /\ InitScrollState
  /\ InitFetchIdle
  /\ InitPosIdle
  /\ InitImageIdle
  /\ InitConsoleIdle
  /\ InitAgendaIdle
  /\ InitShowIdle

NextImage ==
  \/ \E w \in ViewportWidths : SetViewport(w)
  \/ GetBreakpointCalled
  \/ \E img \in Imagenes : GetResponsiveImageUrlCalled(img)

SpecImage == InitImage /\ [][NextImage]_vars

InitRandom ==
  /\ InitSlideVars
  /\ gsapPresent = FALSE
  /\ galleryEl = FALSE
  /\ InitTimeVars
  /\ innerWidth \in ViewportWidths
  /\ scrollTriggerDefined = FALSE
  /\ containerEl = FALSE
  /\ scrollableEl = FALSE
  /\ InitScrollState
  /\ InitFetchIdle
  /\ InitPosIdle
  /\ breakpoint = ""
  /\ bpWidth = -1
  /\ prevBreakpoint = ""
  /\ prevBpWidth = -1
  /\ imagen = NoImagen
  /\ imageUrl = Undefined
  /\ urlBreakpoint = ""
  /\ sectionImgEl \in BOOLEAN
  /\ InitRandomState
  /\ InitConsoleIdle
  /\ InitAgendaIdle
  /\ InitShowIdle

NextRandom ==
  \/ \E w \in ViewportWidths : SetViewport(w)
  \/ \E list \in ImageLists, idx \in 0..MaxImageList :
       GetRandomImageCalled(list, idx)

SpecRandom == InitRandom /\ [][NextRandom]_vars

InitDebug ==
  /\ InitSlideVars
  /\ gsapPresent = FALSE
  /\ galleryEl = FALSE
  /\ InitTimeVars
  /\ InitScrollIdle
  /\ InitFetchIdle
  /\ InitPosIdle
  /\ InitImageIdle
  /\ kaukaConfig \in ConfigValues
  /\ InitConsoleState
  /\ InitAgendaIdle
  /\ InitShowIdle

NextDebug ==
  \/ \E level \in Levels : DebugCalled(level)
  \/ \E c \in ConfigValues : SetConfig(c)

SpecDebug == InitDebug /\ [][NextDebug]_vars

InitAgenda ==
  /\ InitSlideVars
  /\ gsapPresent = FALSE
  /\ galleryEl = FALSE
  /\ InitTimeVars
  /\ InitScrollIdle
  /\ InitFetchIdle
  /\ InitPosIdle
  /\ InitImageIdle
  /\ kaukaConfig \in ConfigValues
  /\ InitConsoleState
  /\ fullCalendarDefined \in BOOLEAN
  /\ titleEl \in BOOLEAN
  /\ InitAgendaState
  /\ InitShowIdle

NextAgenda ==
  \/ \E start \in StartDates, span \in Spans : RenderAgenda(start, span)
  \/ \E type \in ViewTypes, start \in StartDates, span \in Spans :
       DatesSet(type, start, span)

SpecAgenda == InitAgenda /\ [][NextAgenda]_vars

\* a page on which any of the required elements may be missing, and on
\* which the positioner lacks at least one of its two
InitDom ==
  /\ InitSlideVars
  /\ InitTimeVars
  /\ InitScrollIdle
  /\ InitFetchIdle
  /\ bundle \in {"home", "debug"}
  /\ homeImgEl \in BOOLEAN
  /\ sectionBgEl \in BOOLEAN
  /\ ~(homeImgEl /\ sectionBgEl)
  /\ visibleImg = homeImgEl
  /\ imgSvg = FALSE
  /\ imgComplete = FALSE
  /\ imgNaturalHeight = 0
  /\ scrollY = 0
  /\ InitPosState
  /\ InitImageIdle
  /\ InitConsoleIdle
  /\ fullCalendarDefined = TRUE
  /\ titleEl \in BOOLEAN
  /\ InitAgendaState
  /\ projectContainerEl \in BOOLEAN
  /\ homeProjectEl \in BOOLEAN
  /\ projectDiamondEl = FALSE
  /\ InitShowState

\* the operations that look up a required element, and the events that
\* would reach what they register
NextDom ==
  \/ PositionSectionBackground
  \/ ImageLoads(ImgHeight)
  \/ \E len \in {1, DefaultMaxImages} :
       RenderArtistGallery(len, <<>>)
  \/ \E hasUrl \in BOOLEAN : RenderEventCalled("programa", hasUrl)
  \/ ClickProject
  \/ RenderAgenda(CalDate(2025, 5, 5), 6)
  \/ \E type \in ViewTypes : DatesSet(type, CalDate(2025, 4, 28), 6)

SpecDom == InitDom /\ [][NextDom]_vars

InitHome ==
  /\ InitSlideVars
  /\ gsapPresent = FALSE
  /\ galleryEl = TRUE
  /\ InitTimeVars
  /\ InitScrollIdle
  /\ kaukaDebug = FALSE
  /\ req = [k \in Requests |-> IdleReq]
  /\ InitPosIdle
  /\ InitImageIdle
  /\ kaukaConfig \in {"absent", "false", "true"}
  /\ InitConsoleState
  /\ InitAgendaIdle
  /\ projectContainerEl = TRUE
  /\ homeProjectEl = TRUE
  /\ projectDiamondEl = TRUE
  /\ InitShowState

NextHome ==
  \* a configuration that is present holds the image sets
  \/ InitHomePage(kaukaConfig # "absent")
  \/ InitProjectShowcase
  \/ \E k \in Requests :
       \/ FetchFails(k)
       \/ \E r \in HomeResponses : FetchResponds(k, r[1], r[2])
       \/ ThenCheckOk(k)
       \/ JsonSettles(k)
       \/ ThenLog(k)
       \/ CatchSettles(k)
       \/ DeliverArtists(k)
       \/ DeliverPrograma(k)

SpecHome == InitHome /\ [][NextHome]_vars

(***************************************************************************)
(* Claims about the horizontal scroll controller, checked under SpecScroll.*)
(***************************************************************************)
ResizeTimers == {t \in timers : t.kind = "resize"}

\* no debounce timer is pending: the last resize event has been evaluated
Settled == scrollInit = "done" /\ ResizeTimers = {}

\* the engine, the plugin and both bound elements are available
CapabilitiesPresent ==
  gsapPresent /\ scrollTriggerDefined /\ containerEl /\ scrollableEl

\* C5 (as stated): in every reachable state the handle is non-null only while
\* the width is < 768, and null whenever the width is >= 768.
C5_HandleNullWheneverWide ==
  innerWidth >= MdBreakpoint => horizontalScroll = Null

\* C5 (amended): whenever no debounce timer is pending, a width >= 768 means
\* the handle is null and no scroll trigger is live; a non-null handle always
\* denotes the one live scroll trigger.
C5_HandleNullWhenWideAndSettled ==
  /\ (Settled /\ innerWidth >= MdBreakpoint)
       => (horizontalScroll = Null /\ triggers = {})
  /\ horizontalScroll # Null => triggers = {horizontalScroll}

\* a handle existed, the window grew to 768 or more and the debounced run
\* killed it
C5_Witness ==
  /\ Settled /\ innerWidth >= MdBreakpoint /\ evals >= 2
  /\ hBeforeEval # Null /\ killedByEval /\ horizontalScroll = Null

\* C6: under any sequence of resize events and timer firings the controller
\* never creates a second handle while one is active and never calls kill on
\* a null handle.
C6_NoSecondHandleNoKillOfNull ==
  /\ Cardinality(triggers) <= 1
  /\ triggers \subseteq {horizontalScroll}
  /\ ~killedNull
  /\ killCalls + Cardinality(triggers) = nextHandle - 1

\* a handle was created, killed, and a second one created after it
C6_Witness ==
  killCalls >= 1 /\ horizontalScroll = 2 /\ triggers = {2} /\ resizes >= 2

\* C7: once resizing has stopped and the debounce timer has fired, a change
\* of the evaluated width from >= 768 to < 768 has created a new handle
\* (given the engine, the plugin and both elements), and a change from < 768
\* to >= 768 has killed the existing handle and nulled it.
C7_SettledTransition ==
  (Settled /\ evals >= 2) =>
    /\ lastEvalWidth = innerWidth
    /\ (prevEvalWidth >= MdBreakpoint /\ innerWidth < MdBreakpoint
          /\ CapabilitiesPresent)
         => /\ horizontalScroll # Null
            /\ horizontalScroll \in triggers
            /\ createdByEval
            /\ hBeforeEval = Null
            /\ horizontalScroll = nextHandle - 1
    /\ (prevEvalWidth < MdBreakpoint /\ innerWidth >= MdBreakpoint)
         => /\ horizontalScroll = Null
            /\ triggers = {}
            /\ CapabilitiesPresent
                 => (hBeforeEval # Null /\ killedByEval
                     /\ hBeforeEval \notin triggers)

\* the window shrank from 1000 to 500 and the debounced run created a handle
C7_Witness ==
  /\ Settled /\ evals >= 2 /\ prevEvalWidth = 1000 /\ innerWidth = 500
  /\ createdByEval /\ horizontalScroll # Null

\* the part of C8 about the timer: each resize event supersedes the pending
\* timer, and a burst is evaluated once, DebounceDelay after its last event
DebouncedOnce ==
  /\ Cardinality(ResizeTimers) <= 1
  /\ \A t \in ResizeTimers : t.id = resizeTimeout
  /\ burstEvals <= 1
  /\ (burstLen >= 1 /\ ResizeTimers # {}) => burstEvals = 0
  /\ (burstLen >= 1 /\ ResizeTimers = {})
       => /\ burstEvals = 1
          /\ evalDelay >= DebounceDelay
          /\ lastEvalWidth = innerWidth

SideChanged ==
  (prevEvalWidth >= MdBreakpoint) # (lastEvalWidth >= MdBreakpoint)

Navigated == gallery = "rendered" /\ lastOp \in {"next", "prev"}

\* t is the translation -idx * (100 / n) percent
IsPercentOf(t, idx, n) ==
  /\ t # NoTransform
  /\ t[2] > 0
  /\ t[1] * n = -(idx * 100) * t[2]

\* C1: for a slideshow initialised with N >= 2 slides, after any sequence of
\* next and prev clicks the current slide index is an integer in [0, N).
C1_IndexInRange ==
  (gallery = "rendered" /\ totalSlides >= 2)
    => (currentSlide \in Int /\ 0 <= currentSlide /\ currentSlide < totalSlides)

\* a prev click at index 0 has wrapped to the last slide after several clicks
C1_Witness ==
  /\ gallery = "rendered" /\ totalSlides >= 2 /\ clicks >= 3
  /\ lastOp = "prev" /\ prevIndex = 0 /\ currentSlide = totalSlides - 1

\* C2: with N >= 2 slides and starting at index 0, N consecutive next() calls
\* bring the index back to 0, and one prev() from index 0 yields index N - 1.
C2_NextCycleAndPrevWrap ==
  (gallery = "rendered" /\ totalSlides >= 2)
    => /\ (nextRun = totalSlides => currentSlide = 0)
       /\ (lastOp = "prev" /\ prevIndex = 0 => currentSlide = totalSlides - 1)

\* N = 6 next clicks in a row on a freshly initialised gallery
C2_Witness ==
  gallery = "rendered" /\ totalSlides = 6 /\ nextRun = 6 /\ lastOp = "next"

\* C3: after every next or prev navigation the translation requested for the
\* track is -index * (100/N) percent for the index after the navigation,
\* through gsap.to when window.gsap was present at the call and else by
\* assigning the track's transform style.
C3_TranslationMatchesIndex ==
  Navigated =>
    IF gsapAtOp
      THEN appliedVia = "gsap" /\ IsPercentOf(gsapX, currentSlide, totalSlides)
      ELSE appliedVia = "style"
           /\ IsPercentOf(styleTransform, currentSlide, totalSlides)

\* a prev click without gsap that moved a 3-slide track to its last slide
C3_Witness ==
  /\ Navigated /\ lastOp = "prev" /\ ~gsapAtOp
  /\ totalSlides = 3 /\ currentSlide = 2 /\ styleTransform = <<-200, 3>>

\* C4: with N <= 1 slides the arrows are rendered hidden and carry no click
\* handler, so whatever events arrive the index stays 0 and the track is
\* never translated.
C4_SingleSlideInert ==
  (gallery = "rendered" /\ totalSlides <= 1)
    => /\ arrowsHidden
       /\ handlers = {}
       /\ currentSlide = 0
       /\ gsapX = NoTransform
       /\ styleTransform = NoTransform

\* a one-slide gallery that has received several arrow clicks
C4_Witness ==
  gallery = "rendered" /\ totalSlides = 1 /\ Len(slides) = 1 /\ clicks >= 2

(***************************************************************************)
(* Claims about the fetchers, checked under SpecFetch.                     *)
(***************************************************************************)
\* the request of fetcher f failed: no response, a status outside 200-299, or
\* a body that is not JSON
FetchFailed(f) ==
  \/ req[f].failure = "transport"
  \/ req[f].status # 0 /\ ~(200 <= req[f].status /\ req[f].status <= 299)
  \/ req[f].status # 0 /\ req[f].body = "<html>"

\* C9: for both fetchers, on a non-2xx status, a transport failure or a JSON
\* parse failure the returned promise resolves with an empty array, and in no
\* outcome does the returned promise reject.
C9_FailureResolvesEmpty ==
  \A f \in Fetchers :
    /\ req[f].result.state # "rejected"
    /\ req[f].pc = "settled" => req[f].result.state = "fulfilled"
    /\ (req[f].pc = "settled" /\ FetchFailed(f))
         => (req[f].result = [state |-> "fulfilled",
                              value |-> [kind |-> "array", len |-> 0]]
             /\ req[f].errorsLogged = 1)

\* one fetcher settled after a 404, the other after an unparseable body
C9_Witness ==
  /\ req["programa"].pc = "settled" /\ req["programa"].status = 404
  /\ req["programa"].result.value.kind = "array"
  /\ req["artistas"].pc = "settled" /\ req["artistas"].status = 200
  /\ req["artistas"].failure = "parse"
  /\ req["artistas"].result.value.kind = "array"

(***************************************************************************)
(* Claims about the background positioner, checked under SpecPos.          *)
(***************************************************************************)
\* the timers of invocation i that will run calculatePosition
PendingCalc(i) == {t \in timers : t.kind = "calc" /\ t.inv = i}

ListenersOf(i) == {l \in listeners : l.inv = i}

\* the image has fired a load or error event since invocation i was made
EventSince(i) == imageEvents > invs[i].eventsAtCall

\* C10: when a call of positionSectionBackground finds a visible image that
\* is not yet loaded, that call's position computation does not run before
\* the image fires a load or error event, and runs exactly once, 50 ms after
\* the first such event; its listeners are one-shot.  A visible image that is
\* still loading and is not an SVG is always found not yet loaded.
C10_ComputesOnceAfterLoadEvent ==
  \A i \in DOMAIN invs :
    /\ (homeImgEl /\ sectionBgEl /\ invs[i].loadingAtCall /\ ~imgSvg)
         => invs[i].path = "wait"
    /\ invs[i].path = "wait" =>
         /\ invs[i].calcs <= 1
         /\ ~EventSince(i) =>
              /\ invs[i].calcs = 0
              /\ PendingCalc(i) = {}
              /\ ListenersOf(i) = {[inv |-> i, type |-> "load"],
                                   [inv |-> i, type |-> "error"]}
         /\ EventSince(i) =>
              /\ Cardinality(PendingCalc(i)) + invs[i].calcs = 1
              /\ ListenersOf(i) = {}
         /\ invs[i].calcs = 1 =>
              /\ invs[i].calcDelay >= PositionDelay
              /\ sectionOpacity = "1"
              /\ sectionTop >= 0

\* a call waited for the image, the image then fired two events, and the
\* position was computed once
C10_Witness ==
  \E i \in DOMAIN invs :
    /\ invs[i].path = "wait" /\ invs[i].loadingAtCall
    /\ imageEvents >= invs[i].eventsAtCall + 2
    /\ invs[i].calcs = 1
    /\ PendingCalc(i) = {}

\* C11: a visible image whose source contains ".svg" is treated as ready at
\* once: the call schedules the delayed computation right away and attaches
\* no load or error listener, whether or not the image reports itself
\* complete; so does a call that finds an image reporting itself loaded.
C11_SvgOrLoadedScheduledAtOnce ==
  \A i \in DOMAIN invs :
    (homeImgEl /\ sectionBgEl /\ visibleImg
       /\ (imgSvg \/ invs[i].loadedAtCall))
      => /\ invs[i].path = "delayed"
         /\ ListenersOf(i) = {}

(***************************************************************************)
(* Claims about the responsive image helpers, checked under SpecImage.     *)
(***************************************************************************)
\* the place of a breakpoint in the order all < sm < md < lg < xl < 2xl
BpRank(b) ==
  CASE b = "all" -> 0
    [] b = "sm" -> 1
    [] b = "md" -> 2
    [] b = "lg" -> 3
    [] b = "xl" -> 4
    [] OTHER -> 5

\* C12: for every viewport width w, getBreakpoint returns "all" if w < 640,
\* "sm" if 640 <= w < 768, "md" if 768 <= w < 1024, "lg" if 1024 <= w < 1280,
\* "xl" if 1280 <= w < 1536 and "2xl" if w >= 1536; of two calls, the one at
\* the wider viewport never returns the smaller breakpoint.
C12_BreakpointTable ==
  /\ breakpoint # "" =>
        /\ breakpoint = "all" <=> bpWidth < 640
        /\ breakpoint = "sm" <=> (640 <= bpWidth /\ bpWidth < 768)
        /\ breakpoint = "md" <=> (768 <= bpWidth /\ bpWidth < 1024)
        /\ breakpoint = "lg" <=> (1024 <= bpWidth /\ bpWidth < 1280)
        /\ breakpoint = "xl" <=> (1280 <= bpWidth /\ bpWidth < 1536)
        /\ breakpoint = "2xl" <=> bpWidth >= 1536
  /\ (prevBreakpoint # "" /\ prevBpWidth <= bpWidth)
        => BpRank(prevBreakpoint) <= BpRank(breakpoint)

\* getBreakpoint ran at 640 and, before that, at 639
C12_Witness ==
  /\ bpWidth = 640 /\ breakpoint = "sm"
  /\ prevBpWidth = 639 /\ prevBreakpoint = "all"

\* the entry of the record for the breakpoint of its call
EntryAtCall == imagen.responsive[urlBreakpoint]

\* C13 as stated: for every image record and viewport width,
\* getResponsiveImageUrl returns record.responsive[currentBreakpoint] when
\* that entry is present, and record.original.src otherwise.
C13_EntryWhenPresent ==
  imagen \in Imagenes =>
    imageUrl = (IF EntryAtCall # Undefined THEN EntryAtCall
                ELSE imagen.original.src)

\* C13: for every image record and viewport width, getResponsiveImageUrl
\* returns record.responsive[currentBreakpoint] when that entry is present
\* and not the empty string, and record.original.src otherwise; the absence
\* of the entry is not an error: what is returned is a URL of the record.
C13_EntryWhenPresentAndNonEmpty ==
  imagen \in Imagenes =>
    /\ imageUrl = (IF EntryAtCall # Undefined /\ EntryAtCall # ""
                     THEN EntryAtCall ELSE imagen.original.src)
    /\ imageUrl # Undefined
    /\ imageUrl # ""

\* at the sm breakpoint a record with no sm entry gave its original, and the
\* record holds entries for other breakpoints
C13_Witness ==
  /\ imagen \in Imagenes
  /\ urlBreakpoint = "sm"
  /\ imagen.responsive["sm"] = Undefined
  /\ imagen.responsive["md"] # Undefined
  /\ imageUrl = imagen.original.src

(***************************************************************************)
(* Claims about the debug sink, checked under SpecDebug.                   *)
(***************************************************************************)
\* C17: a call of a Debug method (log, warn, error, debug, info) makes
\* exactly one console call, of the matching level, if window.KAUKA_CONFIG
\* exists and its debug field is strictly true; in every other configuration
\* (absent, debug false, debug truthy but not true) it makes no console call.
C17_DebugEmitsIffEnabled ==
  lastDebug.level # "" =>
    IF lastDebug.config = "true"
      THEN \A l \in Levels :
             consoleCalls[l] =
               lastDebug.before[l] + (IF l = lastDebug.level THEN 1 ELSE 0)
      ELSE consoleCalls = lastDebug.before

\* Debug.warn emitted while debug was true, and a later Debug.info, made
\* with a debug field that is truthy but not true, emitted nothing
C17_Witness ==
  /\ lastDebug.level = "info"
  /\ lastDebug.config = "truthy"
  /\ consoleCalls["warn"] = 1
  /\ consoleCalls["info"] = 0

(***************************************************************************)
(* Claims about the agenda, checked under SpecAgenda.                      *)
(***************************************************************************)
\* the Spanish names of the months
SpanishMonths ==
  <<"enero", "febrero", "marzo", "abril", "mayo", "junio", "julio", "agosto",
    "septiembre", "octubre", "noviembre", "diciembre">>

\* C14: in the week-list view, for every start/end boundary pair, the title
\* reads "{startDay} - {endDay}" over "{month}" when start and end fall in
\* the same month (May 5 to May 11 gives "5 - 11" over "mayo"), and
\* "{startDay} de {startMonth} - {endDay} de {endMonth}" otherwise (Apr 28 to
\* May 4 gives "28 de abril - 4 de mayo").
C14_WeekTitle ==
  (calendar = "rendered" /\ titleEl /\ viewType = "listWeek") =>
    /\ (viewStart.y = viewEnd.y /\ viewStart.m = viewEnd.m) =>
         titleHtml =
           <<[class |-> "agenda-days",
              text |-> ToString(viewStart.d) \o " - " \o ToString(viewEnd.d)],
             [class |-> "agenda-month",
              text |-> SpanishMonths[viewStart.m]]>>
    /\ ~(viewStart.y = viewEnd.y /\ viewStart.m = viewEnd.m) =>
         titleHtml =
           <<[class |-> "agenda-days",
              text |-> ToString(viewStart.d) \o " de "
                         \o SpanishMonths[viewStart.m] \o " - "
                         \o ToString(viewEnd.d) \o " de "
                         \o SpanishMonths[viewEnd.m]]>>
    /\ (viewStart = [y |-> 2025, m |-> 5, d |-> 5]
          /\ viewEnd = [y |-> 2025, m |-> 5, d |-> 11]) =>
         titleHtml = <<[class |-> "agenda-days", text |-> "5 - 11"],
                       [class |-> "agenda-month", text |-> "mayo"]>>
    /\ (viewStart = [y |-> 2025, m |-> 4, d |-> 28]
          /\ viewEnd = [y |-> 2025, m |-> 5, d |-> 4]) =>
         titleHtml = <<[class |-> "agenda-days",
                        text |-> "28 de abril - 4 de mayo"]>>

\* the visitor went from the week of May 5 to May 11 2025 to the week of
\* Dec 26 2025 to Jan 1 2026, whose title names both months
C14_Witness ==
  /\ titleEl /\ viewType = "listWeek" /\ navs = 2
  /\ viewStart = [y |-> 2025, m |-> 12, d |-> 26]
  /\ viewEnd = [y |-> 2026, m |-> 1, d |-> 1]
  /\ titleHtml = <<[class |-> "agenda-days",
                    text |-> "26 de diciembre - 1 de enero"]>>

\* C19: renderArtistGallery builds exactly min(len(artist.imagenes),
\* maxImages) slides, in the record's order, with maxImages 6 when the
\* argument is omitted, and initialises the slideshow with that same count as
\* totalSlides.
C19_SlidesAreCappedPrefix ==
  gallery = "rendered" =>
    LET cap == IF maxImagesArg = <<>> THEN 6 ELSE maxImagesArg[1]
        n == IF artistLen <= cap THEN artistLen ELSE cap
    IN /\ Len(slides) = n
       /\ \A i \in 1..n : slides[i] = i
       /\ totalSlides = n

\* an artist with seven images was rendered without a maxImages argument:
\* six slides, and the slideshow has been navigated over them
C19_Witness ==
  /\ gallery = "rendered"
  /\ artistLen = 7
  /\ maxImagesArg = <<>>
  /\ Len(slides) = 6
  /\ totalSlides = 6
  /\ currentSlide = 5

\* C18: debug logging is gated by the runtime configuration: while
\* KAUKA_CONFIG.debug is not true, initHomePage and the components it wires
\* and later triggers make no console.log call.
C18_NoConsoleLogUnlessDebug ==
  kaukaConfig # "true" => consoleCalls["log"] = 0

\* C16: when an optional capability is missing, the operation that wants it
\* takes a degraded path and completes normally: without the animation
\* engine slideshow navigation assigns the style directly; without the
\* animation engine or the scroll-trigger plugin the creation of the
\* horizontal scroll returns null and creates nothing; without the calendar
\* library renderAgenda renders nothing and raises no error.
C16_MissingCapabilityDegrades ==
  /\ (lastOp \in {"next", "prev"} /\ ~gsapAtOp) =>
        /\ appliedVia = "style"
        /\ styleTransform # <<>>
  /\ (~gsapPresent \/ ~scrollTriggerDefined) =>
        /\ horizontalScroll = 0
        /\ homeHorizontalScroll = 0
        /\ triggers = {}
        /\ tweens = {}
  /\ ~fullCalendarDefined =>
        /\ calendar # "rendered"
        /\ titleHtml = <<>>
        /\ agendaError = "none"

(***************************************************************************)
(* Claims about missing elements, checked under SpecDom.                   *)
(***************************************************************************)
\* C15: when a required element is missing (either element of the
\* positioner, the gallery container, the project container, the title
\* element of the calendar), the operation that looks it up changes nothing
\* in the document and registers no listener and no timer.
C15_MissingElementNoEffect ==
  /\ (~homeImgEl \/ ~sectionBgEl) =>
        /\ sectionTop = -1
        /\ sectionOpacity = ""
        /\ listeners = {}
        /\ timers = {}
        /\ \A i \in DOMAIN invs : ~invs[i].scheduled /\ invs[i].calcs = 0
  /\ ~galleryEl =>
        /\ gallery = "none"
        /\ slides = <<>>
        /\ ~arrowsHidden
        /\ handlers = {}
        /\ gsapX = <<>>
        /\ styleTransform = <<>>
        /\ timers = {}
  /\ ~projectContainerEl =>
        /\ projectOf = ""
        /\ projectCursor = ""
        /\ projectClickListeners = 0
        /\ location = "home"
  /\ ~titleEl =>
        /\ titleHtml = <<>>
        /\ dayHeaderColspan = ""

\* every one of the four operations has run on a page that lacks its
\* element: the positioner without #section-bg-img, the gallery, the
\* project section and, after a navigation of the calendar, the title
C15_Witness ==
  /\ homeImgEl /\ ~sectionBgEl /\ Len(invs) >= 1
  /\ ~galleryEl /\ renders >= 1
  /\ ~projectContainerEl /\ homeProjectEl /\ renderEventCalls >= 1
  /\ ~titleEl /\ calendar = "rendered" /\ navs >= 1
       /\ viewType = "listWeek"


\* ---------------------------------------------------------------------------
\* Superseded fetches on the home page, checked under SpecHome
\* ---------------------------------------------------------------------------

\* the requests of fetcher f whose reaction has run, in the order in which
\* their responses were delivered
AppliedOf(f) == SelectSeq(applied, LAMBDA k : FetcherOf(k) = f)

\* request k resolved to a collection with at least one element
BroughtContent(k) ==
  /\ req[k].result.state = "fulfilled"
  /\ req[k].result.value.kind = "array"
  /\ req[k].result.value.len > 0

\* the request whose collection window.kaukaArtists /
\* window.kaukaProgramaCuratorial holds, and the one whose first element the
\* gallery / the project section shows
PublishedOf(f) ==
  IF f = "artistas" THEN kaukaArtists ELSE kaukaProgramaCuratorial

ShownOf(f) == IF f = "artistas" THEN galleryOf ELSE projectOf

LastOf(s) == IF s = <<>> THEN "" ELSE s[Len(s)]

\* C20 as stated: once both requests of a fetcher have been delivered, the
\* content shown and the global published are those of the response that was
\* delivered last: that request's when it carried a collection with content,
\* and no request's when it carried none.
C20_LastResolvedWins ==
  \A f \in {"artistas", "programa"} :
    Len(AppliedOf(f)) = 2 =>
      LET last == LastOf(AppliedOf(f))
          expected == IF BroughtContent(last) THEN last ELSE ""
      IN /\ PublishedOf(f) = expected
         /\ ShownOf(f) = expected

\* C20 amended: no request is cancelled by a newer one (a request whose chain
\* has settled can always have its reaction run, and every reaction runs at
\* most once), and the content shown and the global published are those of
\* the last delivered response that carried a non-empty collection, in
\* delivery order and not in issue order; a failed or empty response changes
\* neither.
C20_LastResolvedWithContentWins ==
  /\ \A k \in Requests :
       /\ req[k].pc = "settled" =>
            ENABLED (DeliverArtists(k) \/ DeliverPrograma(k))
       /\ req[k].pc = "delivered" <=>
            \E i \in DOMAIN applied : applied[i] = k
  /\ \A i, j \in DOMAIN applied : applied[i] = applied[j] => i = j
  /\ \A f \in {"artistas", "programa"} :
       LET withContent == SelectSeq(AppliedOf(f), BroughtContent) IN
         /\ PublishedOf(f) = LastOf(withContent)
         /\ ShownOf(f) = LastOf(withContent)

\* the second request for the programme was delivered before the first, both
\* with content, and the page shows and publishes the first request's
C20_Witness ==
  /\ AppliedOf("programa") = <<"programa2", "programa">>
  /\ BroughtContent("programa") /\ BroughtContent("programa2")
  /\ kaukaProgramaCuratorial = "programa"
  /\ projectOf = "programa"


\* ---------------------------------------------------------------------------
\* Re-initialisation and round trips of the slideshow, checked under SpecSlide
\* ---------------------------------------------------------------------------

\* C21: a gallery instance that renderArtistGallery has just (re)initialised,
\* and on which no arrow handler has run yet, has slide index 0 and a track
\* with no translation, whatever index the instance it replaced had reached.
C21_ReinitStartsAtZero ==
  (gallery = "rendered" /\ lastOp = "init") =>
    /\ currentSlide = 0
    /\ gsapX = NoTransform
    /\ styleTransform = NoTransform

\* a second gallery of several slides was rendered into the container while
\* the first one stood on a slide other than the first
C21_Witness ==
  /\ gallery = "rendered" /\ renders >= 2 /\ lastOp = "init"
  /\ totalSlides >= 2
  /\ prevIndex > 0
  /\ currentSlide = 0

\* the last two handlers that ran on the current instance were next then
\* prev, or prev then next
RoundTrip ==
  /\ gallery = "rendered"
  /\ \/ opBefore = "next" /\ lastOp = "prev"
     \/ opBefore = "prev" /\ lastOp = "next"

\* the translation the last goToSlide asked for, read where it was applied
RequestedTranslation == IF appliedVia = "gsap" THEN gsapX ELSE styleTransform

\* C23: with at least two slides, next followed by prev and prev followed by
\* next leave the index where it was before the pair, and the translation
\* requested is the one of that index: -i * (100 / N) percent.
C23_NextPrevRoundTrip ==
  (RoundTrip /\ totalSlides >= 2) =>
    /\ currentSlide = indexBefore
    /\ RequestedTranslation = <<-(indexBefore * 100), totalSlides>>

\* both round trips across the wrap: next then prev from the last slide, and
\* the pair prev then next seen from the first slide
C23_Witness ==
  /\ RoundTrip /\ totalSlides >= 2
  /\ \/ opBefore = "next" /\ indexBefore = totalSlides - 1
     \/ opBefore = "prev" /\ indexBefore = 0
  /\ currentSlide = indexBefore


\* ---------------------------------------------------------------------------
\* Empty and failed fetches on the home page, checked under SpecHome
\* ---------------------------------------------------------------------------

\* the requests of fetcher f that were delivered without content: the fetch
\* failed (and the fetcher turned the failure into []) or the collection was
\* empty
DeliveredEmpty(f) ==
  {k \in Requests : /\ FetcherOf(k) = f
                    /\ req[k].pc = "delivered"
                    /\ ~BroughtContent(k)}

DeliveredWithContent(f) ==
  {k \in Requests : /\ FetcherOf(k) = f
                    /\ req[k].pc = "delivered"
                    /\ BroughtContent(k)}

\* C22: the gallery / the project event is rendered and the global
\* collection is published only from a response whose collection is not
\* empty; while the only responses delivered for a fetcher are failed or empty
\* ones nothing of it is rendered and its global stays unset; and the promise
\* a fetcher returns never rejects, so that no failure reaches the caller's
\* catch.
C22_EmptyIsNoContent ==
  /\ \A f \in {"artistas", "programa"} :
       /\ PublishedOf(f) # "" => PublishedOf(f) \in DeliveredWithContent(f)
       /\ ShownOf(f) # "" => ShownOf(f) \in DeliveredWithContent(f)
       /\ DeliveredWithContent(f) = {} =>
            /\ PublishedOf(f) = ""
            /\ ShownOf(f) = ""
  /\ DeliveredWithContent("artistas") = {} =>
       gallery = "none" /\ renders = 0 /\ slides = <<>>
  /\ DeliveredWithContent("programa") = {} =>
       /\ renderEventCalls = 0
       /\ projectClickListeners = 0
       /\ projectCursor = ""
  /\ \A k \in Requests :
       req[k].pc \in {"settled", "delivered"} =>
         req[k].result.state = "fulfilled"

\* both requests for the artists were delivered, one after a transport
\* failure and one with an empty list, and the page shows no gallery and has
\* no window.kaukaArtists; the programme, whose response had content, is shown
C22_Witness ==
  /\ DeliveredEmpty("artistas") = {"artistas", "artistas2"}
  /\ \E k \in DeliveredEmpty("artistas") : req[k].failure = "transport"
  /\ \E k \in DeliveredEmpty("artistas") :
       req[k].failure = "none" /\ req[k].result.value = EmptyArray
  /\ kaukaArtists = "" /\ galleryOf = "" /\ gallery = "none"
  /\ DeliveredWithContent("programa") # {}
  /\ projectOf # ""


\* ---------------------------------------------------------------------------
\* The stored handle and failed creations of the horizontal scroll, checked
\* under SpecScroll
\* ---------------------------------------------------------------------------

\* C24: window.homeHorizontalScroll denotes the controller's current live
\* handle: it equals the controller's handle, and a handle it names has not
\* been killed.
C24_GlobalIsLiveHandle ==
  /\ homeHorizontalScroll = horizontalScroll
  /\ homeHorizontalScroll # Null => homeHorizontalScroll \in triggers

\* something initHorizontalScroll needs below 768px is missing: the animation
\* engine, the scroll trigger, the container or the scrollable element
CreationFails ==
  ~(gsapPresent /\ scrollTriggerDefined /\ containerEl /\ scrollableEl)

\* C25: while creation fails, every run of handleHorizontalScroll at a width
\* below 768px attempts the creation (again), no tween and no scroll trigger
\* is ever created, the handle and the stored global stay null, and kill is
\* never invoked.
C25_FailedCreationRetried ==
  [][(CreationFails /\ evals' = evals + 1) =>
       /\ horizontalScroll = Null /\ horizontalScroll' = Null
       /\ tweens' = {} /\ triggers' = {}
       /\ homeHorizontalScroll' = Null
       /\ killCalls' = 0 /\ ~killedNull'
       /\ createAttempts' =
            createAttempts + (IF innerWidth < 768 THEN 1 ELSE 0)]_vars

\* creation has failed at the first run and again after a debounced resize
\* that found the window below 768px
C25_Witness ==
  /\ CreationFails
  /\ resizes >= 1 /\ evals >= 2
  /\ createAttempts >= 2
  /\ lastEvalWidth < 768
  /\ horizontalScroll = Null /\ killCalls = 0 /\ tweens = {}


\* ---------------------------------------------------------------------------
\* Repeated invocations of the positioner, checked under SpecPos
\* ---------------------------------------------------------------------------

\* the invocations made while the visible image was loading, after e events
\* of the image and before the next one
InvokedWhileLoading(e) ==
  {i \in DOMAIN invs : /\ invs[i].loadingAtCall
                       /\ invs[i].path = "wait"
                       /\ invs[i].eventsAtCall = e}

\* C26: invocations are not deduplicated.  In home-bundle.js every invocation
\* that finds the elements and a visible image still loading waits for the
\* image; of the k invocations that wait for the same event each holds its
\* own pair of listeners until the event, and the event gives each its own
\* timer and so exactly k computations in all, at most one per invocation,
\* and leaves no listener of any of them attached.
C26_NoDeduplication ==
  /\ \A i \in DOMAIN invs :
       (bundle = "home" /\ homeImgEl /\ sectionBgEl /\ invs[i].loadingAtCall)
         => invs[i].path = "wait"
  /\ \A e \in 0..imageEvents :
       LET W == InvokedWhileLoading(e)
           k == Cardinality(W)
           pending == {t \in timers : t.kind = "calc" /\ t.inv \in W}
           computed == {i \in W : invs[i].calcs >= 1}
           attached == {l \in listeners : l.inv \in W}
       IN /\ \A i \in W : invs[i].calcs <= 1
          /\ IF imageEvents > e
               THEN /\ Cardinality(pending) + Cardinality(computed) = k
                    /\ \A i \in W :
                         Cardinality({t \in pending : t.inv = i}) +
                           invs[i].calcs = 1
                    /\ attached = {}
               ELSE /\ Cardinality(attached) = 2 * k
                    /\ pending = {}
                    /\ computed = {}

\* three invocations were made while the image was loading, the image then
\* fired its event, and the position has been computed three times
C26_Witness ==
  /\ bundle = "home"
  /\ Cardinality(InvokedWhileLoading(0)) = 3
  /\ imageEvents >= 1
  /\ \A i \in InvokedWhileLoading(0) : invs[i].calcs = 1
  /\ listeners = {}
  /\ timers = {}


\* ---------------------------------------------------------------------------
\* The random hero image, checked under SpecRandom
\* ---------------------------------------------------------------------------

\* the URLs the records of the list of the last call define
UrlsOfList ==
  {randomList.sets[i][b] : i \in DOMAIN randomList.sets, b \in Breakpoints}
    \ {Undefined}

\* C27: after getRandomImage(imageList, id), at every viewport width: when
\* the list is missing or empty, or the target img element does not exist,
\* the src of the target is what it was before the call; otherwise it is a
\* URL that a record of imageList defines, and never an undefined value.
C27_SrcIsUrlOfList ==
  randomCalls > 0 =>
    IF ~randomList.given \/ randomList.sets = <<>> \/ ~sectionImgEl
      THEN sectionImgSrc = srcBeforeCall
      ELSE /\ sectionImgSrc \in UrlsOfList
           /\ sectionImgSrc # Undefined

=============================================================================
